---- MODULE Spec2Model ----
(***************************************************************************)
(* A model of the normalisation and rich-text rendering engine of the      *)
(* OCHRE SDK (src/utils/string.ts, src/utils/parse.ts).                    *)
(*                                                                         *)
(* JavaScript values.  Every raw JSON value is a record with a field       *)
(* jstype \in {"string","number","boolean","array","object","null"}.       *)
(* Primitives and arrays carry their payload in the field v; an object     *)
(* carries its own keys, so that `"k" in obj` is "k" \in DOMAIN obj.       *)
(*                                                                         *)
(* Strings.  A JavaScript string is a sequence of units.  A unit is one    *)
(* character ("x", " ", "*", "\n"), or an indivisible, space-free chunk    *)
(* of a literal the code emits or compares as a whole (a markup word such  *)
(* as "<Footnote", an option word such as "bold", a uuid).  Spaces are     *)
(* always units of their own.                                              *)
(***************************************************************************)
EXTENDS Integers, Sequences, FiniteSets, TLC

\* pc: whether the caller is between calls ("idle") or holds a result ("done")
\* call: the operation applied last, its arguments and what it returned
VARIABLES pc, call

vars == <<pc, call>>

op == call[1]
args == call[2]
ret == call[3]

(***************************************************************************)
(* Bounds of the model.                                                    *)
(***************************************************************************)
MaxItems == 2        \* longest array of language items / links / children
MaxTokens == 2       \* most option tokens in a rend / whitespace string
MaxDepth == 2        \* deepest raw resource tree below the root

(***************************************************************************)
(* JavaScript value constructors.                                          *)
(***************************************************************************)
Str(s) == [jstype |-> "string", v |-> s]
Num(n) == [jstype |-> "number", v |-> n]
Bool(b) == [jstype |-> "boolean", v |-> b]
Arr(xs) == [jstype |-> "array", v |-> xs]
Null == [jstype |-> "null"]

IsArray(x) == x.jstype = "array"

\* typeof: arrays and null are "object"
TypeOf(x) == IF x.jstype \in {"array", "null"} THEN "object" ELSE x.jstype

\* a function returns normally with a value, or throws
Ok(x) == [ok |-> TRUE, value |-> x]
Throw(e) == [ok |-> FALSE, error |-> e]

(***************************************************************************)
(* String primitives of the JavaScript runtime.                            *)
(***************************************************************************)
RECURSIVE ReplaceAll(_, _, _)
ReplaceAll(s, pat, rep) ==
  IF Len(s) < Len(pat) THEN s
  ELSE IF SubSeq(s, 1, Len(pat)) = pat
       THEN rep \o ReplaceAll(SubSeq(s, Len(pat) + 1, Len(s)), pat, rep)
       ELSE <<Head(s)>> \o ReplaceAll(Tail(s), pat, rep)

RECURSIVE Split(_, _)
Split(s, sep) ==
  IF \A i \in 1..Len(s) : s[i] # sep THEN <<s>>
  ELSE LET i == CHOOSE k \in 1..Len(s) :
                  s[k] = sep /\ \A j \in 1..(k - 1) : s[j] # sep
       IN <<SubSeq(s, 1, i - 1)>> \o Split(SubSeq(s, i + 1, Len(s)), sep)

RECURSIVE Join(_, _)
Join(parts, sep) ==
  IF Len(parts) = 0 THEN <<>>
  ELSE IF Len(parts) = 1 THEN parts[1]
  ELSE parts[1] \o <<sep>> \o Join(Tail(parts), sep)

RECURSIVE Flatten(_)
Flatten(seqs) == IF Len(seqs) = 0 THEN <<>> ELSE Head(seqs) \o Flatten(Tail(seqs))

Includes(s, sub) ==
  \E i \in 1..(Len(s) - Len(sub) + 1) : SubSeq(s, i, i + Len(sub) - 1) = sub

DigitChar == <<"0", "1", "2", "3", "4", "5", "6", "7", "8", "9">>

\* Number.prototype.toString on a natural number
RECURSIVE NumToString(_)
NumToString(n) ==
  IF n < 10 THEN <<DigitChar[n + 1]>>
  ELSE NumToString(n \div 10) \o <<DigitChar[(n % 10) + 1]>>

\* .replaceAll("&#39;", "'")
RestoreApostrophes(s) == ReplaceAll(s, <<"&", "#", "3", "9", ";">>, <<"'">>)

(***************************************************************************)
(* string.ts: parseFakeString                                              *)
(***************************************************************************)
parseFakeString(string) ==
  LET returnString ==
        IF string.jstype = "string" THEN string.v
        ELSE IF string.jstype = "number" THEN NumToString(string.v)
        ELSE IF string.jstype = "boolean"
             THEN (IF string.v THEN <<"Y", "e", "s">> ELSE <<"N", "o">>)
             ELSE <<>>
  IN RestoreApostrophes(returnString)

(***************************************************************************)
(* string.ts: renderOptionsSchema, whitespaceSchema                        *)
(***************************************************************************)
RenderOption == {"bold", "italic", "underline"}
WhitespaceOption == {"newline", "trailing", "leading"}

\* z.string().transform(split(" ")).pipe(z.array(z.enum(options)))
SchemaTokens(str) == Split(str, " ")
SchemaSuccess(str, options) ==
  \A i \in 1..Len(SchemaTokens(str)) :
     /\ Len(SchemaTokens(str)[i]) = 1
     /\ SchemaTokens(str)[i][1] \in options

renderOptionsSchema(str) ==
  [success |-> SchemaSuccess(str, RenderOption),
   data |-> [i \in 1..Len(SchemaTokens(str)) |-> Head(SchemaTokens(str)[i] \o <<"">>)]]

whitespaceSchema(str) ==
  [success |-> SchemaSuccess(str, WhitespaceOption),
   data |-> [i \in 1..Len(SchemaTokens(str)) |-> Head(SchemaTokens(str)[i] \o <<"">>)]]

(***************************************************************************)
(* string.ts: parseRenderOptions                                           *)
(***************************************************************************)
ApplyRenderOption(returnString, option) ==
  CASE option = "bold" -> <<"*", "*">> \o returnString \o <<"*", "*">>
    [] option = "italic" -> <<"*">> \o returnString \o <<"*">>
    [] option = "underline" -> <<"_">> \o returnString \o <<"_">>
    [] OTHER -> returnString

RECURSIVE RenderLoopReversed(_, _, _)
RenderLoopReversed(returnString, data, i) ==
  IF i > Len(data) THEN returnString
  ELSE ApplyRenderOption(RenderLoopReversed(returnString, data, i + 1), data[i])

RECURSIVE RenderLoop(_, _, _)
RenderLoop(returnString, data, i) ==
  IF i > Len(data) THEN returnString
  ELSE RenderLoop(ApplyRenderOption(returnString, data[i]), data, i + 1)

parseRenderOptions(contentString, renderString) ==
  LET result == renderOptionsSchema(renderString)
  IN IF ~result.success THEN contentString
     ELSE RestoreApostrophes(RenderLoop(contentString, result.data, 1))

(***************************************************************************)
(* string.ts: parseWhitespace                                              *)
(***************************************************************************)
ApplyWhitespaceOption(returnString, option) ==
  CASE option = "newline" -> returnString \o <<"\n", "<br", " ", "/>">>
    [] option = "trailing" -> returnString \o <<" ">>
    [] option = "leading" -> <<" ">> \o returnString
    [] OTHER -> returnString

RECURSIVE WhitespaceLoop(_, _, _)
WhitespaceLoop(returnString, data, i) ==
  IF i > Len(data) THEN returnString
  ELSE WhitespaceLoop(ApplyWhitespaceOption(returnString, data[i]), data, i + 1)

parseWhitespace(contentString, whitespace) ==
  LET result == whitespaceSchema(whitespace)
  IN IF ~result.success THEN contentString
     ELSE RestoreApostrophes(WhitespaceLoop(contentString, result.data, 1))

(***************************************************************************)
(* string.ts: parseStringItem                                              *)
(***************************************************************************)
\* a string is truthy when it is not empty; an absent key is undefined
Truthy(obj, key) == key \in DOMAIN obj /\ Len(obj[key]) > 0

\* Array.isArray(v) ? v : [v]
NormalizeAlwaysWraps(v) == <<v>>
Normalize(v) == IF IsArray(v) THEN v.v ELSE <<v>>

parseStringItemContent(stringItem) ==
  LET renderedText ==
        IF Truthy(stringItem, "rend")
        THEN parseRenderOptions(parseFakeString(stringItem.content), stringItem.rend)
        ELSE parseFakeString(stringItem.content)
      whitespacedText ==
        IF Truthy(stringItem, "whitespace")
        THEN parseWhitespace(renderedText, stringItem.whitespace)
        ELSE renderedText
  IN whitespacedText

RECURSIVE ConcatStringItems(_, _)
ConcatStringItems(stringItems, i) ==
  IF i > Len(stringItems) THEN <<>>
  ELSE parseStringItemContent(stringItems[i]) \o ConcatStringItems(stringItems, i + 1)

parseStringItem(item) ==
  LET returnString ==
        CASE TypeOf(item.string) = "string" -> item.string.v
          [] TypeOf(item.string) \in {"number", "boolean"} -> parseFakeString(item.string)
          [] TypeOf(item.string) = "object" ->
               ConcatStringItems(Normalize(item.string), 1)
          [] OTHER -> <<>>
  IN RestoreApostrophes(returnString)

(***************************************************************************)
(* string.ts: getStringItemByLanguage, parseStringContent                  *)
(***************************************************************************)
\* language = "eng"
DefaultLanguage == "eng"
Undefined == "undefined"
\* a default parameter takes its default when the argument is omitted
WithDefault(a, d) == IF a = Undefined THEN d ELSE a

LangMatches(item, language) == "lang" \in DOMAIN item /\ item.lang = language

\* Array.prototype.find: the first element satisfying the predicate
getStringItemByLanguageLast(content, language) ==
  IF \E i \in 1..Len(content) : LangMatches(content[i], language)
  THEN content[CHOOSE i \in 1..Len(content) :
                 /\ LangMatches(content[i], language)
                 /\ \A j \in (i + 1)..Len(content) : ~LangMatches(content[j], language)]
  ELSE Null

RECURSIVE Find(_, _, _)
Find(content, language, i) ==
  IF i > Len(content) THEN Null
  ELSE IF LangMatches(content[i], language) THEN content[i]
  ELSE Find(content, language, i + 1)

getStringItemByLanguage(content, language) == Find(content, language, 1)

parseStringContentNoThrow(content, language) ==
  CASE TypeOf(content.content) \in {"string", "number", "boolean"} ->
         Ok(parseFakeString(content.content))
    [] TypeOf(content.content) = "object" ->
         IF IsArray(content.content)
         THEN LET stringItem == getStringItemByLanguage(content.content.v, language)
              IN IF stringItem # Null THEN Ok(parseStringItem(stringItem))
                 ELSE IF Len(content.content.v) = 0
                      THEN Ok(<<>>)
                      ELSE Ok(parseStringItem(content.content.v[1]))
         ELSE Ok(parseStringItem(content.content))

parseStringContent(content, language) ==
  CASE TypeOf(content.content) \in {"string", "number", "boolean"} ->
         Ok(parseFakeString(content.content))
    [] TypeOf(content.content) = "object" ->
         IF IsArray(content.content)
         THEN LET stringItem == getStringItemByLanguage(content.content.v, language)
              IN IF stringItem # Null THEN Ok(parseStringItem(stringItem))
                 ELSE IF Len(content.content.v) = 0
                      THEN Throw("No string item found for language")
                      ELSE Ok(parseStringItem(content.content.v[1]))
         ELSE Ok(parseStringItem(content.content))

(***************************************************************************)
(* string.ts: isUrlValid, emailSchema, urlSchema                           *)
(* Character classes of the regular expressions.  A chunk unit belongs to  *)
(* no class: no chunk of the model holds ":", "@" or "www".                *)
(***************************************************************************)
LowerCase ==
  <<"a", "b", "c", "d", "e", "f", "g", "h", "i", "j", "k", "l", "m",
    "n", "o", "p", "q", "r", "s", "t", "u", "v", "w", "x", "y", "z">>
UpperCase ==
  <<"A", "B", "C", "D", "E", "F", "G", "H", "I", "J", "K", "L", "M",
    "N", "O", "P", "Q", "R", "S", "T", "U", "V", "W", "X", "Y", "Z">>

Letter == {LowerCase[i] : i \in 1..Len(LowerCase)} \cup {UpperCase[i] : i \in 1..Len(UpperCase)}
Digit == {DigitChar[i] : i \in 1..Len(DigitChar)}
WordChar == Letter \cup Digit \cup {"_"}                    \* \w
UserChar == WordChar \cup {"$", "&", "+", ",", ":", ";", "=", "-"}
HostChar == Letter \cup Digit \cup {".", "-"}
SpaceChar == {" ", "\n"}                                     \* \s

\* String.prototype.toLocaleLowerCase("en-US")
ToLowerCase(s) ==
  [i \in 1..Len(s) |->
     IF \E k \in 1..Len(UpperCase) : UpperCase[k] = s[i]
     THEN LowerCase[CHOOSE k \in 1..Len(UpperCase) : UpperCase[k] = s[i]]
     ELSE s[i]]

At(s, i) == IF i \in 1..Len(s) THEN s[i] ELSE "END"

\* (?:[\w$&+,:;=-]+@)?[\d.A-Za-z-]+ matches at position j
MatchesUserHost(s, j) ==
  \/ At(s, j) \in HostChar
  \/ \E m \in 1..Len(s) :
        /\ \A k \in j..(j + m - 1) : At(s, k) \in UserChar
        /\ At(s, j + m) = "@"
        /\ At(s, j + m + 1) \in HostChar

\* [A-Za-z]{3,9}:(?:\/\/)?(?:[\w$&+,:;=-]+@)?[\d.A-Za-z-]+ matches at i
MatchesScheme(s, i) ==
  \E n \in 3..9 :
     /\ \A k \in i..(i + n - 1) : At(s, k) \in Letter
     /\ At(s, i + n) = ":"
     /\ \/ MatchesUserHost(s, i + n + 1)
        \/ /\ At(s, i + n + 1) = "/" /\ At(s, i + n + 2) = "/"
           /\ MatchesUserHost(s, i + n + 3)

\* (?:www.|[\w$&+,:;=-]+@)[\d.A-Za-z-]+ matches at i
MatchesWwwOrUser(s, i) ==
  \/ /\ At(s, i) = "w" /\ At(s, i + 1) = "w" /\ At(s, i + 2) = "w"
     /\ i + 3 <= Len(s) /\ At(s, i + 3) # "\n"
     /\ At(s, i + 4) \in HostChar
  \/ \E m \in 1..Len(s) :
        /\ \A k \in i..(i + m - 1) : At(s, k) \in UserChar
        /\ At(s, i + m) = "@"
        /\ At(s, i + m + 1) \in HostChar

\* the pattern is not anchored: test() succeeds on a match anywhere
isUrlValid(url) ==
  \E i \in 1..Len(url) : MatchesScheme(url, i) \/ MatchesWwwOrUser(url, i)

urlSchema(v) == Len(v) > 0 /\ isUrlValid(v)

\* zod 3: /^(?!\.)(?!.*\.\.)([A-Z0-9_'+\-\.]*)[A-Z0-9_+-]@([A-Z0-9][A-Z0-9\-]*\.)+[A-Z]{2,}$/i
emailSchema(v) ==
  \E a \in 2..Len(v) :
     /\ v[a] = "@"
     /\ v[1] # "."
     /\ \A k \in 1..(Len(v) - 1) : ~(v[k] = "." /\ v[k + 1] = "." /\ \A j \in 1..k : v[j] # "\n")
     /\ \A k \in 1..(a - 2) : v[k] \in Letter \cup Digit \cup {"_", "'", "+", "-", "."}
     /\ v[a - 1] \in Letter \cup Digit \cup {"_", "+", "-"}
     /\ LET labels == Split(SubSeq(v, a + 1, Len(v)), ".")
        IN /\ Len(labels) >= 2
           /\ \A k \in 1..(Len(labels) - 1) :
                 /\ Len(labels[k]) >= 1
                 /\ labels[k][1] \in Letter \cup Digit
                 /\ \A j \in 1..Len(labels[k]) : labels[k][j] \in Letter \cup Digit \cup {"-"}
           /\ Len(labels[Len(labels)]) >= 2
           /\ \A j \in 1..Len(labels[Len(labels)]) : labels[Len(labels)][j] \in Letter

(***************************************************************************)
(* string.ts: parseEmailAndUrl                                             *)
(***************************************************************************)
OpeningBracket == {"(", "[", "{"}
ClosingBracket == {")", "]", "}"}
TrailingPunctuation == {"!", ")", ",", ".", ":", ";", "?", "]"}

\* .replaceAll(/(?<=\s|^)[([{]+|[)\]}]+(?=\s|$)/g, "")
InOpeningRun(s, i) ==
  /\ s[i] \in OpeningBracket
  /\ \E b \in 1..i :
        /\ (b = 1 \/ s[b - 1] \in SpaceChar)
        /\ \A j \in b..i : s[j] \in OpeningBracket
InClosingRun(s, i) ==
  /\ s[i] \in ClosingBracket
  /\ \E e \in i..Len(s) :
        /\ (e = Len(s) \/ s[e + 1] \in SpaceChar)
        /\ \A j \in i..e : s[j] \in ClosingBracket
StripBrackets(s) ==
  SelectSeq([i \in 1..Len(s) |-> <<s[i], InOpeningRun(s, i) \/ InClosingRun(s, i)>>],
            LAMBDA p : ~p[2])

\* .replace(/[!),.:;?\]]$/, "")
StripTrailingPunctuation(s) ==
  IF Len(s) > 0 /\ s[Len(s)] \in TrailingPunctuation
  THEN SubSeq(s, 1, Len(s) - 1) ELSE s

CleanString(string) ==
  LET stripped == StripBrackets(string)
  IN StripTrailingPunctuation([i \in 1..Len(stripped) |-> stripped[i][1]])

\* String.prototype.indexOf (0-based, -1 when absent)
IndexOf(s, sub) ==
  IF Includes(s, sub)
  THEN (CHOOSE i \in 1..(Len(s) - Len(sub) + 1) :
          /\ SubSeq(s, i, i + Len(sub) - 1) = sub
          /\ \A j \in 1..(i - 1) : SubSeq(s, j, j + Len(sub) - 1) # sub) - 1
  ELSE -1

\* String.prototype.slice(start, end) with 0-based, possibly negative, indices
Clamp(i, n) == IF i < 0 THEN (IF n + i < 0 THEN 0 ELSE n + i) ELSE IF i > n THEN n ELSE i
Slice(s, start, end) == SubSeq(s, Clamp(start, Len(s)) + 1, Clamp(end, Len(s)))

EmailLink(before, cleanString, after) ==
  before \o <<"<ExternalLink", " ", "href=\"", "m", "a", "i", "l", "t", "o", ":">>
         \o cleanString \o <<"\"", ">">> \o cleanString \o <<"</ExternalLink>">> \o after

UrlLink(before, cleanString, after) ==
  before \o <<"<ExternalLink", " ", "href=\"">>
         \o cleanString \o <<"\"", ">">> \o cleanString \o <<"</ExternalLink>">> \o after

\* what one token of the split string pushes onto returnSplitString
LinkifyToken(string) ==
  LET cleanString == CleanString(string)
      index == IndexOf(string, cleanString)
      before == Slice(string, 0, index)
      after == Slice(string, index + Len(cleanString), Len(string))
  IN IF emailSchema(cleanString)
     THEN <<before, EmailLink(before, cleanString, after)>>
     ELSE IF urlSchema(cleanString)
     THEN <<UrlLink(before, cleanString, after)>>
     ELSE <<string>>

parseEmailAndUrl(string) ==
  LET splitString == Split(string, " ")
  IN Join(Flatten([i \in 1..Len(splitString) |-> LinkifyToken(splitString[i])]), " ")

(***************************************************************************)
(* parse.ts: parseIdentification, parseContext, parseLicense               *)
(***************************************************************************)
Date(string) == [jstype |-> "date", v |-> string]

\* try { label, then every other key, through parseStringContent }
\* catch { return { label: "", abbreviation: "" } }
parseIdentification(identification) ==
  LET keys == DOMAIN identification \ {"jstype"}
      parsed == [k \in keys |-> parseStringContent(identification[k], DefaultLanguage)]
  IN IF \A k \in keys : parsed[k].ok
     THEN [k \in keys \cup {"abbreviation"} |->
             IF k \in keys THEN parsed[k].value ELSE <<>>]
     ELSE [label |-> <<>>, abbreviation |-> <<>>]

\* the nodes of a context are not looked at by any operation of the model
parseContext(context) == [jstype |-> "object", displayPath |-> context.displayPath]

parseLicense(license) ==
  IF license.license.jstype = "string" THEN Null
  ELSE [jstype |-> "object", content |-> license.license.content,
        url |-> license.license.target]

(***************************************************************************)
(* parse.ts: parseResource, parseResources                                 *)
(***************************************************************************)
\* the isNested argument parseResource passes for its child resources
ChildIsNestedInherited(isNested) == isNested
ChildIsNested(isNested) == TRUE

\* the keys parseResource deletes from a nested resource
DeletedWhenNested == {"publicationDateTime", "license", "copyright"}

\* the first failure among the sub-results, in evaluation order
FirstFailure(results) ==
  results[CHOOSE i \in 1..Len(results) :
            ~results[i].ok /\ \A j \in 1..(i - 1) : results[j].ok]

RECURSIVE parseResource(_, _)
RECURSIVE parseResources(_, _)

parseResource(resource, isNested) ==
  LET description ==
        IF "description" \in DOMAIN resource
        THEN parseStringContent(resource.description, DefaultLanguage)
        ELSE Ok(<<>>)
      resources ==
        IF "resource" \in DOMAIN resource
        THEN parseResources(Arr(Normalize(resource.resource)), ChildIsNested(isNested))
        ELSE Ok(<<>>)
      returnResource ==
        [jstype |-> "object",
         uuid |-> resource.uuid,
         variant |-> "resource",
         publicationDateTime |->
           IF "publicationDateTime" \in DOMAIN resource
           THEN Date(resource.publicationDateTime) ELSE Null,
         type |-> resource.type,
         number |-> resource.n,
         context |->
           IF "context" \in DOMAIN resource THEN parseContext(resource.context) ELSE Null,
         license |->
           IF "availability" \in DOMAIN resource
           THEN parseLicense(resource.availability) ELSE Null,
         copyright |->
           IF "copyright" \in DOMAIN resource
           THEN parseFakeString(resource.copyright) ELSE Null,
         identification |-> parseIdentification(resource.identification),
         description |-> description.value,
         resources |-> resources.value]
      returnNestedResource ==
        [k \in DOMAIN returnResource \ DeletedWhenNested |->
           IF k = "context" THEN Null ELSE returnResource[k]]
  IN IF ~description.ok \/ ~resources.ok
     THEN FirstFailure(<<description, resources>>)
     ELSE IF isNested THEN Ok(returnNestedResource) ELSE Ok(returnResource)

RECURSIVE ResourcesLoop(_, _, _)
ResourcesLoop(resourcesToParse, isNested, i) ==
  IF i > Len(resourcesToParse) THEN Ok(<<>>)
  ELSE LET first == parseResource(resourcesToParse[i], isNested)
           rest == ResourcesLoop(resourcesToParse, isNested, i + 1)
       IN IF ~first.ok THEN first
          ELSE IF ~rest.ok THEN rest
          ELSE Ok(<<first.value>> \o rest.value)

parseResources(resources, isNested) ==
  ResourcesLoop(Normalize(resources), isNested, 1)

(***************************************************************************)
(* parse.ts: parseBibliography, parseBibliographies, parseLink, parseLinks *)
(***************************************************************************)
Get(obj, key) == IF key \in DOMAIN obj THEN obj[key] ELSE Null

\* a string or null of the program: obj[key] ?? null
Nullable(obj, key) == IF key \in DOMAIN obj THEN Str(obj[key]) ELSE Null

\* the raw bibliographies of the model carry no source, context, citation,
\* publicationInfo, entryInfo, authors or properties keys
parseBibliography(bibliography) ==
  [jstype |-> "object",
   uuid |-> bibliography.uuid,
   publicationDateTime |->
     IF "publicationDateTime" \in DOMAIN bibliography
     THEN Date(bibliography.publicationDateTime) ELSE Null,
   type |-> Get(bibliography, "type"),
   number |-> Get(bibliography, "n"),
   identification |->
     IF "identification" \in DOMAIN bibliography
     THEN parseIdentification(bibliography.identification) ELSE Null]

parseBibliographies(bibliographies) ==
  [i \in 1..Len(bibliographies) |-> parseBibliography(bibliographies[i])]

\* the order in which parseLink looks for the key holding the payload
LinkPayloadKeysWithoutEpigraphicUnit ==
  <<"resource", "concept", "set", "tree", "person", "bibliography">>
LinkPayloadKeys ==
  <<"resource", "concept", "set", "tree", "person", "bibliography", "epigraphicUnit">>

\* the order in which parseLink looks for the key naming the variant
LinkVariantKeys ==
  <<"resource", "concept", "set", "person", "tree", "bibliography", "epigraphicUnit">>

\* "k1" in linkRaw ? k1 : "k2" in linkRaw ? k2 : ... : null
FirstPresentKey(linkRaw, keys) ==
  IF \E i \in 1..Len(keys) : keys[i] \in DOMAIN linkRaw
  THEN keys[CHOOSE i \in 1..Len(keys) :
              /\ keys[i] \in DOMAIN linkRaw
              /\ \A j \in 1..(i - 1) : keys[j] \notin DOMAIN linkRaw]
  ELSE "null"

\* "height" in link && link.height != null && link.width != null && ...
\* (a raw number is never null: a key of the model is supplied or absent)
HasImageGeometryWithoutWidthPreview(link) ==
  /\ "height" \in DOMAIN link
  /\ "width" \in DOMAIN link
  /\ "heightPreview" \in DOMAIN link
HasImageGeometry(link) ==
  /\ "height" \in DOMAIN link
  /\ "width" \in DOMAIN link
  /\ "heightPreview" \in DOMAIN link
  /\ "widthPreview" \in DOMAIN link

parseLinkItem(linkRaw, link) ==
  [jstype |-> "object",
   variant |-> FirstPresentKey(linkRaw, LinkVariantKeys),
   content |-> IF "content" \in DOMAIN link THEN parseFakeString(link.content) ELSE Null,
   uuid |-> link.uuid,
   type |-> Nullable(link, "type"),
   identification |->
     IF "identification" \in DOMAIN link
     THEN parseIdentification(link.identification) ELSE Null,
   image |->
     IF HasImageGeometry(link)
     THEN [jstype |-> "object",
           isInline |-> ("rend" \in DOMAIN link /\ link.rend = <<"inline">>),
           heightPreview |-> Get(link, "heightPreview"),
           widthPreview |-> Get(link, "widthPreview"),
           height |-> Get(link, "height"),
           width |-> Get(link, "width")]
     ELSE Null,
   bibliographies |->
     IF "bibliography" \in DOMAIN linkRaw
     THEN parseBibliographies(Normalize(linkRaw.bibliography))
     ELSE Null,
   publicationDateTime |->
     IF "publicationDateTime" \in DOMAIN link
     THEN Date(link.publicationDateTime) ELSE Null]

parseLink(linkRaw) ==
  LET key == FirstPresentKey(linkRaw, LinkPayloadKeys)
  IN IF key = "null" THEN Throw("Invalid link provided")
     ELSE LET linksToParse == Normalize(linkRaw[key])
          IN Ok([i \in 1..Len(linksToParse) |-> parseLinkItem(linkRaw, linksToParse[i])])

RECURSIVE parseLinks(_)
parseLinks(links) ==
  IF Len(links) = 0 THEN Ok(<<>>)
  ELSE LET first == parseLink(Head(links))
           rest == parseLinks(Tail(links))
       IN IF ~first.ok THEN first
          ELSE IF ~rest.ok THEN rest
          ELSE Ok(first.value \o rest.value)

(***************************************************************************)
(* string.ts: parseStringDocumentItem                                      *)
(* The footnotes argument is the caller's array (Arr) or undefined (Null); *)
(* the operator returns the text together with the array as it is left.    *)
(***************************************************************************)
\* .replaceAll("<", "\\<").replaceAll("{", "\\{")
EscapeMarkup(s) ==
  ReplaceAll(ReplaceAll(s, <<"<">>, <<"\\", "<">>), <<"{">>, <<"\\", "{">>)

\* truthiness of a FakeString
JsTruthy(x) ==
  CASE x.jstype = "string" -> Len(x.v) > 0
    [] x.jstype = "number" -> x.v # 0
    [] x.jstype = "boolean" -> x.v
    [] OTHER -> x.jstype # "null"

\* linkContent?.toLocaleLowerCase("en-US").includes("footnote")
IsFootnoteCaseSensitive(linkContent) ==
  Includes(linkContent, <<"f", "o", "o", "t", "n", "o", "t", "e">>)
IsFootnote(linkContent) ==
  Includes(ToLowerCase(linkContent), <<"f", "o", "o", "t", "n", "o", "t", "e">>)

\* Array.isArray(link.k) ? link.k[0]! : link.k
FirstTarget(target) == IF IsArray(target) THEN target.v[1] ELSE target

ContentAttr(linkContent) ==
  IF Len(linkContent) > 0 THEN <<"content=\"">> \o linkContent \o <<"\"">> ELSE <<>>
SpacedContentAttr(linkContent) ==
  IF Len(linkContent) > 0 THEN <<" ", "content=\"">> \o linkContent \o <<"\"">> ELSE <<>>
TypeAttr(type) == <<"type=\"">> \o type \o <<"\"">>

\* <ExternalLink href="https:\/\/ochre.lib.uchicago.edu/ochre?uuid=${uuid}"
ExternalLinkOpen(uuid) ==
  <<"<ExternalLink", " ", "href=\"", "h", "t", "t", "p", "s", ":",
    "\\/\\/ochre.lib.uchicago.edu/ochre?uuid=", uuid, "\"">>

ExternalLink(uuid, type, linkContent, itemString) ==
  ExternalLinkOpen(uuid) \o <<" ">> \o TypeAttr(type) \o <<" ">> \o ContentAttr(linkContent)
    \o <<">">> \o itemString \o <<"</ExternalLink>">>

TooltipSpan(type, linkContent, itemString) ==
  <<"<TooltipSpan", " ">> \o TypeAttr(type) \o <<" ">> \o ContentAttr(linkContent)
    \o <<">">> \o itemString \o <<"</TooltipSpan>">>

PlainExternalLink(uuid, type, itemString) ==
  ExternalLinkOpen(uuid) \o <<" ">> \o TypeAttr(type)
    \o <<">">> \o itemString \o <<"</ExternalLink>">>

PlainTooltipSpan(type, itemString) ==
  <<"<TooltipSpan", " ">> \o TypeAttr(type) \o <<">">> \o itemString \o <<"</TooltipSpan>">>

NumberOrNull(obj, key) ==
  IF key \in DOMAIN obj THEN NumToString(obj[key]) ELSE <<"null">>

InlineImage(linkResource, linkContent) ==
  <<"<InlineImage", " ", "uuid=\"", linkResource.uuid, "\"", " ">>
    \o ContentAttr(linkContent)
    \o <<" ", "height={">> \o NumberOrNull(linkResource, "height") \o <<"}">>
    \o <<" ", "width={">> \o NumberOrNull(linkResource, "width") \o <<"}", " ", "/>">>

FootnoteMarker(uuid, itemString, linkContent) ==
  <<" ", "<Footnote", " ", "uuid=\"", uuid, "\"">>
    \o (IF Len(itemString) > 0 THEN <<" ", "label=\"">> \o itemString \o <<"\"">> ELSE <<>>)
    \o SpacedContentAttr(linkContent) \o <<" ", "/>">>

PushFootnote(footnotes, footnote) ==
  IF footnotes = Null THEN Null ELSE Arr(Append(footnotes.v, footnote))

Published(target) == Truthy(target, "publicationDateTime")

\* what the body of the loop over itemLinks does for one link: it returns
\* from parseStringDocumentItem (returned), throws, or goes on to the next link
Returned(string, footnotes) ==
  [returned |-> TRUE, ok |-> TRUE, string |-> string, footnotes |-> footnotes]
Continue(footnotes) ==
  [returned |-> FALSE, ok |-> TRUE, string |-> <<>>, footnotes |-> footnotes]
Thrown(footnotes) ==
  [returned |-> TRUE, ok |-> FALSE, string |-> <<>>, footnotes |-> footnotes]

RenderResourceLink(linkResource, itemString, footnotes) ==
  LET linkContent ==
        IF "content" \in DOMAIN linkResource /\ JsTruthy(linkResource.content)
        THEN EscapeMarkup(parseFakeString(linkResource.content))
        ELSE <<>>
      type == IF "type" \in DOMAIN linkResource THEN linkResource.type ELSE <<"undefined">>
  IN CASE type = <<"image">> ->
            IF "rend" \in DOMAIN linkResource /\ linkResource.rend = <<"inline">>
            THEN Returned(InlineImage(linkResource, linkContent), footnotes)
            ELSE IF Published(linkResource)
            THEN Returned(ExternalLinkOpen(linkResource.uuid) \o <<" ">> \o TypeAttr(<<"image">>)
                            \o SpacedContentAttr(linkContent)
                            \o <<">">> \o itemString \o <<"</ExternalLink>">>,
                          footnotes)
            ELSE Returned(TooltipSpan(<<"image">>, linkContent, itemString), footnotes)
       [] type = <<"internalDocument">> ->
            IF IsFootnote(linkContent)
            THEN Returned(FootnoteMarker(linkResource.uuid, itemString, linkContent),
                          PushFootnote(footnotes,
                                       [uuid |-> linkResource.uuid,
                                        label |-> itemString,
                                        content |-> <<>>]))
            ELSE Returned(ExternalLink(linkResource.uuid, <<"internalDocument">>,
                                       linkContent, itemString),
                          footnotes)
       [] type = <<"externalDocument">> ->
            IF Published(linkResource)
            THEN Returned(ExternalLink(linkResource.uuid, <<"externalDocument">>,
                                       linkContent, itemString),
                          footnotes)
            ELSE Returned(TooltipSpan(<<"externalDocument">>, linkContent, itemString),
                          footnotes)
       [] OTHER -> Continue(footnotes)

RenderPersonLink(linkPerson, itemString, footnotes) ==
  LET label == IF "identification" \in DOMAIN linkPerson
               THEN parseStringContent(linkPerson.identification.label, DefaultLanguage)
               ELSE Ok(<<>>)
      type == IF "type" \in DOMAIN linkPerson THEN linkPerson.type ELSE <<"person">>
  IN IF ~label.ok THEN Thrown(footnotes)
     ELSE IF Published(linkPerson)
     THEN Returned(ExternalLink(linkPerson.uuid, type, label.value, itemString), footnotes)
     ELSE Returned(TooltipSpan(type, label.value, itemString), footnotes)

RenderLink(link, itemString, footnotes) ==
  CASE "resource" \in DOMAIN link ->
         RenderResourceLink(FirstTarget(link.resource), itemString, footnotes)
    [] "concept" \in DOMAIN link /\ "resource" \notin DOMAIN link ->
         IF Published(FirstTarget(link.concept))
         THEN Returned(PlainExternalLink(FirstTarget(link.concept).uuid, <<"concept">>,
                                         itemString), footnotes)
         ELSE Returned(PlainTooltipSpan(<<"concept">>, itemString), footnotes)
    [] "set" \in DOMAIN link /\ DOMAIN link \cap {"resource", "concept"} = {} ->
         IF Published(FirstTarget(link.set))
         THEN Returned(PlainExternalLink(FirstTarget(link.set).uuid, <<"set">>,
                                         itemString), footnotes)
         ELSE Returned(PlainTooltipSpan(<<"set">>, itemString), footnotes)
    [] "person" \in DOMAIN link /\ DOMAIN link \cap {"resource", "concept", "set"} = {} ->
         RenderPersonLink(FirstTarget(link.person), itemString, footnotes)
    [] "bibliography" \in DOMAIN link
         /\ DOMAIN link \cap {"resource", "concept", "set", "person"} = {} ->
         LET linkBibliography == FirstTarget(link.bibliography)
         IN IF Published(linkBibliography)
            THEN Returned(PlainExternalLink(linkBibliography.uuid,
                                            IF Truthy(linkBibliography, "type")
                                            THEN linkBibliography.type
                                            ELSE <<"bibliography">>,
                                            itemString), footnotes)
            ELSE Returned(PlainTooltipSpan(<<"bibliography">>, itemString), footnotes)
    [] OTHER -> Continue(footnotes)

\* for (const link of itemLinks) { ... }
RECURSIVE LinksLoop(_, _, _, _)
LinksLoop(itemLinks, itemString, footnotes, i) ==
  IF i > Len(itemLinks) THEN Continue(footnotes)
  ELSE LET step == RenderLink(itemLinks[i], itemString, footnotes)
       IN IF step.returned THEN step
          ELSE LinksLoop(itemLinks, itemString, footnotes, i + 1)

IsPrimitive(item) == item.jstype \in {"string", "number", "boolean"}

RECURSIVE parseStringDocumentItem(_, _)
RECURSIVE DocumentItemsLoop(_, _, _)

\* returnString += parseStringDocumentItem(stringItem, footnotes), in order
DocumentItemsLoop(stringItems, footnotes, i) ==
  IF i > Len(stringItems) THEN [ok |-> TRUE, string |-> <<>>, footnotes |-> footnotes]
  ELSE LET first == parseStringDocumentItem(stringItems[i], footnotes)
       IN IF ~first.ok THEN first
          ELSE LET rest == DocumentItemsLoop(stringItems, first.footnotes, i + 1)
               IN IF ~rest.ok THEN rest
                  ELSE [ok |-> TRUE, string |-> first.string \o rest.string,
                        footnotes |-> rest.footnotes]

parseStringDocumentItem(item, footnotes) ==
  IF IsPrimitive(item)
  THEN [ok |-> TRUE, string |-> parseEmailAndUrl(parseFakeString(item)),
        footnotes |-> footnotes]
  ELSE IF "whitespace" \in DOMAIN item /\ "content" \notin DOMAIN item
            /\ "string" \notin DOMAIN item
  THEN [ok |-> TRUE,
        string |-> IF item.whitespace = <<"newline">> THEN <<" ", " ", "\n">> ELSE <<>>,
        footnotes |-> footnotes]
  ELSE LET fromLinks ==
             IF "links" \in DOMAIN item
             THEN LinksLoop(Normalize(item.links),
                            EscapeMarkup(parseFakeString(item.string)), footnotes, 1)
             ELSE Continue(footnotes)
       IN IF fromLinks.returned
          THEN [ok |-> fromLinks.ok, string |-> fromLinks.string,
                footnotes |-> fromLinks.footnotes]
          ELSE IF "string" \in DOMAIN item
          THEN LET children == DocumentItemsLoop(Normalize(item.string), footnotes, 1)
               IN IF ~children.ok THEN children
                  ELSE [ok |-> TRUE,
                        string |->
                          RestoreApostrophes(
                            IF Truthy(item, "whitespace")
                            THEN parseWhitespace(parseEmailAndUrl(children.string),
                                                 item.whitespace)
                            ELSE children.string),
                        footnotes |-> children.footnotes]
          ELSE LET content == parseFakeString(item.content)
                   rendered ==
                     IF Truthy(item, "rend")
                     THEN parseRenderOptions(parseEmailAndUrl(content), item.rend)
                     ELSE content
                   whitespaced ==
                     IF Truthy(item, "whitespace")
                     THEN parseWhitespace(parseEmailAndUrl(rendered), item.whitespace)
                     ELSE rendered
               IN [ok |-> TRUE, string |-> RestoreApostrophes(whitespaced),
                   footnotes |-> footnotes]

(***************************************************************************)
(* string.ts: trimEndLineBreaks; parse.ts: parseDocument                   *)
(***************************************************************************)
LineBreakMarkers == {<<" ", " ", "\n">>, <<"\n", "<br", " ", "/>">>, <<"\n">>}

StartsWith(s, prefix) == Len(s) >= Len(prefix) /\ SubSeq(s, 1, Len(prefix)) = prefix
EndsWith(s, suffix) ==
  Len(s) >= Len(suffix) /\ SubSeq(s, Len(s) - Len(suffix) + 1, Len(s)) = suffix

\* trims leading and trailing line-break markers, repeatedly
RECURSIVE trimEndLineBreaks(_)
trimEndLineBreaks(string) ==
  IF \E m \in LineBreakMarkers : StartsWith(string, m)
  THEN LET m == CHOOSE m \in LineBreakMarkers : StartsWith(string, m)
       IN trimEndLineBreaks(SubSeq(string, Len(m) + 1, Len(string)))
  ELSE IF \E m \in LineBreakMarkers : EndsWith(string, m)
  THEN LET m == CHOOSE m \in LineBreakMarkers : EndsWith(string, m)
       IN trimEndLineBreaks(SubSeq(string, 1, Len(string) - Len(m)))
  ELSE string

\* document.find((doc) => doc.lang === language)
RECURSIVE FindDocument(_, _, _)
FindDocument(documents, language, i) ==
  IF i > Len(documents) THEN Null
  ELSE IF LangMatches(documents[i], language) THEN documents[i]
  ELSE FindDocument(documents, language, i + 1)

parseDocument(document, language) ==
  LET documentWithLanguage ==
        IF IsArray(document) THEN FindDocument(document.v, language, 1) ELSE document
  IN IF documentWithLanguage = Null
     THEN Throw("TypeError: Cannot read properties of undefined")
     ELSE IF IsPrimitive(documentWithLanguage.string)
     THEN Ok([content |->
                trimEndLineBreaks(parseEmailAndUrl(parseFakeString(documentWithLanguage.string))),
              footnotes |-> <<>>])
     ELSE LET items == DocumentItemsLoop(Normalize(documentWithLanguage.string), Arr(<<>>), 1)
          IN IF ~items.ok THEN Throw("No string item found for language")
             ELSE Ok([content |-> trimEndLineBreaks(items.string),
                      footnotes |-> items.footnotes.v])

(***************************************************************************)
(* parse.ts: parseProperties                                               *)
(* A Property is [label, values, comment, properties]; a value that is a   *)
(* string or null in JavaScript is Str(s) or Null.                         *)
(***************************************************************************)
Whitespace == {" ", "\n"}

\* .replace(/\s*\.{3}$/, "")
RECURSIVE StripTrailingWhitespace(_)
StripTrailingWhitespace(s) ==
  IF Len(s) > 0 /\ s[Len(s)] \in Whitespace
  THEN StripTrailingWhitespace(SubSeq(s, 1, Len(s) - 1)) ELSE s

RECURSIVE StripLeadingWhitespace(_)
StripLeadingWhitespace(s) ==
  IF Len(s) > 0 /\ s[1] \in Whitespace THEN StripLeadingWhitespace(Tail(s)) ELSE s

StripEllipsis(s) ==
  IF EndsWith(s, <<".", ".", ".">>)
  THEN StripTrailingWhitespace(SubSeq(s, 1, Len(s) - 3)) ELSE s

\* .trim()
Trim(s) == StripLeadingWhitespace(StripTrailingWhitespace(s))

\* the first failure of a sequence of results, or all their values
RECURSIVE Collect(_)
Collect(results) ==
  IF Len(results) = 0 THEN Ok(<<>>)
  ELSE IF ~Head(results).ok THEN Head(results)
  ELSE LET rest == Collect(Tail(results))
       IN IF ~rest.ok THEN rest ELSE Ok(<<Head(results).value>> \o rest.value)

parsePropertyValue(value) ==
  LET content == parseStringContent(value, DefaultLanguage)
  IN IF ~content.ok THEN content
     ELSE Ok([content |-> content.value,
              type |-> Nullable(value, "type"),
              category |->
                IF "category" \in DOMAIN value /\ value.category # "value"
                THEN Str(value.category) ELSE Null,
              uuid |-> Nullable(value, "uuid"),
              publicationDateTime |->
                IF "publicationDateTime" \in DOMAIN value
                THEN Date(value.publicationDateTime) ELSE Null])

RECURSIVE parseProperties(_, _)
RECURSIVE parseProperty(_, _)

parseProperty(property, language) ==
  LET valuesToParse ==
        IF "value" \in DOMAIN property THEN Normalize(property.value) ELSE <<>>
      values == Collect([i \in 1..Len(valuesToParse) |->
                           parsePropertyValue(valuesToParse[i])])
      label == parseStringContent(property.label, language)
      properties ==
        IF "property" \in DOMAIN property
        THEN parseProperties(Normalize(property.property), DefaultLanguage)
        ELSE Ok(<<>>)
  IN IF ~values.ok THEN values
     ELSE IF ~label.ok THEN label
     ELSE IF ~properties.ok THEN properties
     ELSE Ok([label |-> Trim(StripEllipsis(label.value)),
              values |-> values.value,
              comment |->
                IF "comment" \in DOMAIN property
                THEN Str(parseFakeString(property.comment)) ELSE Null,
              properties |-> properties.value])

\* parseProperties with the order of the returned properties reversed
parsePropertiesReversed(properties, language) ==
  Collect([i \in 1..Len(properties) |->
             parseProperty(properties[Len(properties) + 1 - i], language)])

parseProperties(properties, language) ==
  Collect([i \in 1..Len(properties) |-> parseProperty(properties[i], language)])

(***************************************************************************)
(* getters.ts: getPropertyByLabel, getPropertyValuesByLabel,               *)
(* getPropertyValueByLabel                                                 *)
(***************************************************************************)
DEFAULT_OPTIONS == [searchNestedProperties |-> FALSE]

HasLabel(properties, label) == \E i \in 1..Len(properties) : properties[i].label = label

\* properties.find((property) => property.label === label)
FindByLabel(properties, label) ==
  properties[CHOOSE i \in 1..Len(properties) :
               /\ properties[i].label = label
               /\ \A j \in 1..(i - 1) : properties[j].label # label]

RECURSIVE getPropertyByLabel(_, _, _)
RECURSIVE PropertyNestedLoop(_, _, _)

PropertyNestedLoop(properties, label, i) ==
  IF i > Len(properties) THEN Null
  ELSE LET nestedResult ==
             IF Len(properties[i].properties) > 0
             THEN getPropertyByLabel(properties[i].properties, label, TRUE)
             ELSE Null
       IN IF nestedResult # Null THEN nestedResult
          ELSE PropertyNestedLoop(properties, label, i + 1)

getPropertyByLabelAlwaysNested(properties, label, searchNestedProperties) ==
  IF HasLabel(properties, label) THEN FindByLabel(properties, label)
  ELSE PropertyNestedLoop(properties, label, 1)

getPropertyByLabel(properties, label, searchNestedProperties) ==
  IF HasLabel(properties, label) THEN FindByLabel(properties, label)
  ELSE IF searchNestedProperties THEN PropertyNestedLoop(properties, label, 1)
  ELSE Null

RECURSIVE getPropertyValuesByLabel(_, _, _)
RECURSIVE ValuesNestedLoop(_, _, _)

ValuesNestedLoop(properties, label, i) ==
  IF i > Len(properties) THEN Null
  ELSE LET nestedResult ==
             IF Len(properties[i].properties) > 0
             THEN getPropertyValuesByLabel(properties[i].properties, label, TRUE)
             ELSE Null
       IN IF nestedResult # Null THEN nestedResult
          ELSE ValuesNestedLoop(properties, label, i + 1)

\* an array of strings (Arr) or null
getPropertyValuesByLabel(properties, label, searchNestedProperties) ==
  IF HasLabel(properties, label)
  THEN LET values == FindByLabel(properties, label).values
       IN Arr([i \in 1..Len(values) |-> values[i].content])
  ELSE IF searchNestedProperties THEN ValuesNestedLoop(properties, label, 1)
  ELSE Null

RECURSIVE getPropertyValueByLabel(_, _, _)
RECURSIVE ValueNestedLoop(_, _, _)

ValueNestedLoop(properties, label, i) ==
  IF i > Len(properties) THEN Null
  ELSE LET nestedResult ==
             IF Len(properties[i].properties) > 0
             THEN getPropertyValueByLabel(properties[i].properties, label, TRUE)
             ELSE Null
       IN IF nestedResult # Null THEN nestedResult
          ELSE ValueNestedLoop(properties, label, i + 1)

\* a string (Str) or null
getPropertyValueByLabelSearchingNested(properties, label, searchNestedProperties) ==
  LET values == getPropertyValuesByLabel(properties, label, TRUE)
  IN IF values # Null /\ Len(values.v) > 0 THEN Str(values.v[1])
     ELSE ValueNestedLoop(properties, label, 1)

getPropertyValueByLabel(properties, label, searchNestedProperties) ==
  LET values == getPropertyValuesByLabel(properties, label, searchNestedProperties)
  IN IF values # Null /\ Len(values.v) > 0 THEN Str(values.v[1])
     ELSE IF searchNestedProperties THEN ValueNestedLoop(properties, label, 1)
     ELSE Null

(***************************************************************************)
(* parse.ts: the website builder.  fetchResource is the function from      *)
(* uuid to the outcome of the fetcher, null or { resource }; every result  *)
(* carries in "fetched" the uuids the fetcher was called with, in order.   *)
(***************************************************************************)
\* componentSchema
ComponentsWithSidebar ==
  {"annotated-document", "annotated-image", "bibliography", "blog", "button",
   "collection", "iiif-viewer", "image", "image-gallery",
   "interactive-chapter-table", "item-gallery", "menu", "menu-item",
   "n-columns", "n-rows", "network-graph", "sidebar", "table", "text",
   "text-image"}

Components ==
  {"annotated-document", "annotated-image", "bibliography", "blog", "button",
   "collection", "iiif-viewer", "image", "image-gallery",
   "interactive-chapter-table", "item-gallery", "menu", "menu-item",
   "n-columns", "n-rows", "network-graph", "table", "text", "text-image"}

TypeError == "TypeError: Cannot read properties of undefined"

WOk(value, fetched) == [ok |-> TRUE, value |-> value, fetched |-> fetched]
WThrow(error, fetched) == [ok |-> FALSE, error |-> error, fetched |-> fetched]

\* a string of one indivisible unit as a JavaScript string
AsString(content) == IF Len(content) = 1 THEN content[1] ELSE ""

\* array.find(predicate), given the positions where the predicate holds
FindAt(array, positions) ==
  IF positions = {} THEN Null
  ELSE array[CHOOSE i \in positions : \A j \in positions : i <= j]

LinksOfType(links, types) ==
  {i \in 1..Len(links) : links[i].type \in {Str(<<t>>) : t \in types}}

LinksOfVariant(links, variant) == {i \in 1..Len(links) : links[i].variant = variant}

\* resource.links ? parseLinks(...) : []
ResourceLinks(resource) ==
  IF "links" \in DOMAIN resource THEN parseLinks(Normalize(resource.links)) ELSE Ok(<<>>)

\* resource.properties ? parseProperties(...) : []
ResourceProperties(resource) ==
  IF "properties" \in DOMAIN resource
  THEN parseProperties(Normalize(resource.properties.property), DefaultLanguage)
  ELSE Ok(<<>>)

\* resource.resource ? [...] : []
ResourceChildren(resource) ==
  IF "resource" \in DOMAIN resource THEN Normalize(resource.resource) ELSE <<>>

\* `<what> not found for the following component: "<componentName>"`
ComponentError(what, componentName) ==
  what \o " not found for the following component: \"" \o componentName \o "\""

ImageOfLink(imageLink, suffix) ==
  [url |-> "https://ochre.lib.uchicago.edu/ochre?uuid=" \o imageLink.uuid \o suffix,
   label |-> IF imageLink.identification # Null
             THEN Str(imageLink.identification.label) ELSE Null,
   width |-> IF imageLink.image # Null THEN imageLink.image.width ELSE 0,
   height |-> IF imageLink.image # Null THEN imageLink.image.height ELSE 0]

\* getPropertyValueByLabel(componentProperty.properties, label) with a default
ComponentValue(componentProperty, label, default) ==
  LET found == getPropertyValueByLabel(componentProperty.properties, <<label>>,
                                       DEFAULT_OPTIONS.searchNestedProperties)
  IN IF found = Null THEN default ELSE found

Merge(a, b) ==
  [k \in DOMAIN a \cup DOMAIN b |-> IF k \in DOMAIN b THEN b[k] ELSE a[k]]

\* properties.find((property) => property.label === "presentation" &&
\*   property.values[0]!.content === type): a position, 0 when there is none,
\* -1 when a presentation property without values is met first (strict) 
RECURSIVE FindPresentation(_, _, _, _)
FindPresentation(properties, type, strict, i) ==
  IF i > Len(properties) THEN 0
  ELSE IF properties[i].label # <<"presentation">>
  THEN FindPresentation(properties, type, strict, i + 1)
  ELSE IF Len(properties[i].values) = 0
  THEN IF strict THEN -1 ELSE FindPresentation(properties, type, strict, i + 1)
  ELSE IF properties[i].values[1].content = <<type>> THEN i
  ELSE FindPresentation(properties, type, strict, i + 1)

\* properties.find((property) => property.label === label)?.values[0]
FirstValue(properties, label) ==
  IF HasLabel(properties, <<label>>) /\ Len(FindByLabel(properties, <<label>>).values) > 0
  THEN FindByLabel(properties, <<label>>).values[1] ELSE Null

\* cssStyles.push({ label: property.label, value: property.values[0]!.content })
CssStyles(cssProperties) ==
  IF \E i \in 1..Len(cssProperties) : Len(cssProperties[i].values) = 0
  THEN Throw(TypeError)
  ELSE Ok([i \in 1..Len(cssProperties) |->
             [label |-> cssProperties[i].label,
              value |-> cssProperties[i].values[1].content]])

RECURSIVE parseWebElementProperties(_, _, _)
RECURSIVE parseWebElement(_, _, _)
RECURSIVE parseWebpageResources(_, _, _)
RECURSIVE WebpageResourcesLoop(_, _, _, _)
RECURSIVE parseWebpage(_, _)

\* webpageResource.slug === "/" ? "" : webpageResource.slug
WebpageSlugWithoutLeadingSlash(slug) ==
  IF Len(slug) > 0 /\ slug[1] = "/" THEN Tail(slug) ELSE slug

WebpageSlug(slug) == IF slug = <<"/">> THEN <<>> ELSE slug

\* the switch over componentName
ComponentCase(componentName, componentProperty, elementResource, links, document, fetchResource) ==
  LET properties == [component |-> componentName]
      imageLink == FindAt(links, LinksOfType(links, {"image"}))
      With(more) == WOk(Merge(properties, more), <<>>)
      Missing(what) == WThrow(ComponentError(what, componentName), <<>>)
  IN CASE componentName = "annotated-document" ->
            IF document = Null THEN Missing("Document")
            ELSE With([document |-> document])
       [] componentName = "annotated-image" ->
            IF imageLink = Null THEN Missing("Image link")
            ELSE With([imageUuid |-> imageLink.uuid,
                       isSearchable |->
                         ComponentValue(componentProperty, "is-searchable", Null)
                           = Str(<<"Yes">>)])
       [] componentName = "bibliography" ->
            \* a link of variant "bibliography" always carries bibliographies
            LET bibliographyLink == FindAt(links, LinksOfVariant(links, "bibliography"))
            IN IF bibliographyLink = Null THEN Missing("Bibliography link")
               ELSE With([bibliographies |-> bibliographyLink.bibliographies,
                          layout |-> ComponentValue(componentProperty, "layout",
                                                    Str(<<"long">>))])
       [] componentName = "blog" ->
            LET blogLink == FindAt(links, LinksOfVariant(links, "tree"))
            IN IF blogLink = Null THEN Missing("Blog link")
               ELSE With([blogId |-> blogLink.uuid])
       [] componentName = "button" ->
            LET navigateTo == ComponentValue(componentProperty, "navigate-to", Null)
                linkTo == ComponentValue(componentProperty, "link-to", Null)
                label == IF "identification" \in DOMAIN elementResource
                         THEN parseStringContent(elementResource.identification.label,
                                                 DefaultLanguage)
                         ELSE Throw(TypeError)
            IN IF navigateTo = Null /\ linkTo = Null
               THEN Missing("Properties \"navigate-to\" or \"link-to\"")
               ELSE IF ~label.ok THEN WThrow(label.error, <<>>)
               ELSE With([href |-> IF navigateTo # Null THEN navigateTo ELSE linkTo,
                          isExternal |-> (navigateTo = Null),
                          label |-> label.value])
       [] componentName = "collection" ->
            LET variant == ComponentValue(componentProperty, "variant", Null)
                collectionLink == FindAt(links, LinksOfVariant(links, "set"))
            IN IF variant = Null THEN Missing("Property \"variant\"")
               ELSE IF collectionLink = Null THEN Missing("Collection link")
               ELSE With([variant |-> variant,
                          layout |-> ComponentValue(componentProperty, "layout",
                                                    Str(<<"image-start">>)),
                          collectionId |-> collectionLink.uuid])
       [] componentName = "iiif-viewer" -> With([manifestUrl |-> ""])
       [] componentName = "image" ->
            IF imageLink = Null THEN Missing("Image link")
            ELSE With([image |-> ImageOfLink(imageLink, "&load")])
       [] componentName = "image-gallery" ->
            LET galleryLink == FindAt(links, LinksOfVariant(links, "tree"))
            IN IF galleryLink = Null THEN Missing("Image gallery link")
               ELSE With([galleryId |-> galleryLink.uuid])
       [] componentName = "item-gallery" ->
            LET galleryLink == FindAt(links, LinksOfVariant(links, "tree"))
            IN IF galleryLink = Null THEN Missing("Item gallery link")
               ELSE With([galleryId |-> galleryLink.uuid])
       [] componentName \in {"n-columns", "n-rows"} ->
            LET subElements ==
                  parseWebpageResources(ResourceChildren(elementResource), "element",
                                        fetchResource)
            IN IF ~subElements.ok THEN subElements
               ELSE WOk(Merge(properties,
                              IF componentName = "n-columns"
                              THEN [columns |-> subElements.value]
                              ELSE [rows |-> subElements.value]),
                        subElements.fetched)
       [] componentName = "table" -> With([headers |-> <<>>, tableId |-> ""])
       [] componentName = "text" ->
            IF document = Null THEN Missing("Document")
            ELSE With([variant |-> ComponentValue(componentProperty, "variant",
                                                  Str(<<"block">>)),
                       content |-> document.content])
       [] componentName = "text-image" ->
            LET textImageLink == FindAt(links, LinksOfType(links, {"image", "IIIF"}))
            IN IF document = Null THEN Missing("Document")
               ELSE IF textImageLink = Null
               THEN WThrow(ComponentError("Image link", componentName) \o ": [...]", <<>>)
               ELSE With([variant |-> ComponentValue(componentProperty, "variant",
                                                     Str(<<"block">>)),
                          layout |-> ComponentValue(componentProperty, "layout",
                                                    Str(<<"image-start">>)),
                          captionLayout |-> ComponentValue(componentProperty,
                                                           "caption-layout",
                                                           Str(<<"bottom">>)),
                          content |-> document.content,
                          image |-> ImageOfLink(textImageLink, "&preview"),
                          imageOpacity |-> Null])
       \* interactive-chapter-table, menu, menu-item, network-graph; the default
       \* branch only warns
       [] OTHER -> With([component |-> componentName])

\* the document of the element: inline, or fetched through the first link of
\* type internalDocument
ResolveDocument(elementResource, links, fetchResource) ==
  LET inline == IF "document" \in DOMAIN elementResource
                THEN parseDocument(elementResource.document.content, DefaultLanguage)
                ELSE Ok(Null)
      documentLink == FindAt(links, LinksOfType(links, {"internalDocument"}))
  IN IF ~inline.ok THEN WThrow(inline.error, <<>>)
     ELSE IF inline.value # Null THEN WOk(inline.value, <<>>)
     ELSE IF documentLink = Null THEN WOk(Null, <<>>)
     ELSE IF fetchResource[documentLink.uuid] = Null
     THEN WThrow("Failed to fetch OCHRE data", <<documentLink.uuid>>)
     ELSE WOk(fetchResource[documentLink.uuid].resource.document, <<documentLink.uuid>>)

parseWebElementProperties(componentProperty, elementResource, fetchResource) ==
  IF Len(componentProperty.values) = 0 THEN WThrow(TypeError, <<>>)
  ELSE IF AsString(componentProperty.values[1].content) \notin Components
  THEN WThrow("ZodError: Invalid enum value", <<>>)
  ELSE
    LET componentName == AsString(componentProperty.values[1].content)
        links == ResourceLinks(elementResource)
    IN IF ~links.ok THEN WThrow(links.error, <<>>)
       ELSE
         LET document == ResolveDocument(elementResource, links.value, fetchResource)
         IN IF ~document.ok THEN document
            ELSE
              LET result == ComponentCase(componentName, componentProperty,
                                          elementResource, links.value,
                                          document.value, fetchResource)
              IN [result EXCEPT !.fetched = document.fetched \o @]

parseWebElement(elementResource, elementProperties, fetchResource) ==
  LET identification == parseIdentification(elementResource.identification)
  IN IF ~HasLabel(elementProperties, <<"component">>)
     THEN WThrow("Component for element not found", <<>>)
     ELSE
       LET properties ==
             parseWebElementProperties(FindByLabel(elementProperties, <<"component">>),
                                       elementResource, fetchResource)
           elementResourceProperties == ResourceProperties(elementResource)
       IN IF ~properties.ok THEN properties
          ELSE IF ~elementResourceProperties.ok
          THEN WThrow(elementResourceProperties.error, properties.fetched)
          ELSE
            LET css == FindPresentation(elementResourceProperties.value, "css", TRUE, 1)
                cssStyles ==
                  IF css = -1 THEN Throw(TypeError)
                  ELSE IF css = 0 THEN Ok(<<>>)
                  ELSE CssStyles(elementResourceProperties.value[css].properties)
            IN IF ~cssStyles.ok THEN WThrow(cssStyles.error, properties.fetched)
               ELSE WOk(Merge([uuid |-> elementResource.uuid,
                               title |-> identification.label,
                               cssStyles |-> cssStyles.value],
                              properties.value),
                        properties.fetched)

\* for (const resource of webpageResources), from position i
WebpageResourcesLoop(webpageResources, type, fetchResource, i) ==
  IF i > Len(webpageResources) THEN WOk(<<>>, <<>>)
  ELSE
    LET resource == webpageResources[i]
        resourceProperties == ResourceProperties(resource)
        found == FindPresentation(resourceProperties.value, type, TRUE, 1)
        one ==
          IF ~resourceProperties.ok THEN WThrow(resourceProperties.error, <<>>)
          ELSE IF found = -1 THEN WThrow(TypeError, <<>>)
          ELSE IF found = 0 THEN WOk(<<>>, <<>>)
          ELSE IF type = "element"
          THEN LET element == parseWebElement(resource,
                                              resourceProperties.value[found].properties,
                                              fetchResource)
               IN IF element.ok THEN WOk(<<element.value>>, element.fetched)
                  ELSE element
          ELSE LET webpage == parseWebpage(resource, fetchResource)
               IN IF ~webpage.ok THEN webpage
                  ELSE IF webpage.value = Null THEN WOk(<<>>, webpage.fetched)
                  ELSE WOk(<<webpage.value>>, webpage.fetched)
    IN IF ~one.ok THEN one
       ELSE LET rest == WebpageResourcesLoop(webpageResources, type, fetchResource, i + 1)
            IN IF ~rest.ok THEN [rest EXCEPT !.fetched = one.fetched \o @]
               ELSE WOk(one.value \o rest.value, one.fetched \o rest.fetched)

parseWebpageResources(webpageResources, type, fetchResource) ==
  WebpageResourcesLoop(webpageResources, type, fetchResource, 1)

parseWebpage(webpageResource, fetchResource) ==
  LET webpageProperties == ResourceProperties(webpageResource)
  IN IF ~webpageProperties.ok THEN WThrow(webpageProperties.error, <<>>)
     ELSE IF \/ Len(webpageProperties.value) = 0
             \/ FirstValue(webpageProperties.value, "presentation") = Null
             \/ FirstValue(webpageProperties.value, "presentation").content # <<"page">>
     THEN WOk(Null, <<>>)
     ELSE
       LET identification == parseIdentification(webpageResource.identification)
           links == ResourceLinks(webpageResource)
           elements == parseWebpageResources(ResourceChildren(webpageResource),
                                             "element", fetchResource)
           webpages == parseWebpageResources(ResourceChildren(webpageResource),
                                             "page", fetchResource)
           page == FindPresentation(webpageProperties.value, "page", FALSE, 1)
           webpageSubProperties == webpageProperties.value[page].properties
           headerProperty == FirstValue(webpageSubProperties, "header")
           widthProperty == FirstValue(webpageSubProperties, "width")
           variantProperty == FirstValue(webpageSubProperties, "variant")
           css == FindPresentation(webpageProperties.value, "css", FALSE, 1)
           cssStyles ==
             IF css = 0 THEN Ok(<<>>)
             ELSE CssStyles(webpageProperties.value[css].properties)
       IN IF "slug" \notin DOMAIN webpageResource
          THEN WThrow("Slug not found for page", <<>>)
          ELSE IF ~links.ok THEN WThrow(links.error, <<>>)
          ELSE IF ~elements.ok THEN elements
          ELSE IF ~webpages.ok
          THEN [webpages EXCEPT !.fetched = elements.fetched \o @]
          ELSE IF ~cssStyles.ok
          THEN WThrow(cssStyles.error, elements.fetched \o webpages.fetched)
          ELSE
            LET imageLink == FindAt(links.value, LinksOfType(links.value, {"image", "IIIF"}))
            IN WOk([title |-> identification.label,
                    slug |-> WebpageSlug(webpageResource.slug),
                    elements |-> elements.value,
                    properties |->
                      [displayedInHeader |->
                         IF headerProperty # Null
                         THEN headerProperty.content = <<"Yes">> ELSE TRUE,
                       width |-> IF widthProperty # Null THEN widthProperty.content
                                 ELSE <<"default">>,
                       variant |-> IF variantProperty # Null THEN variantProperty.content
                                   ELSE <<"default">>,
                       backgroundImageUrl |->
                         IF imageLink # Null
                         THEN Str("https://ochre.lib.uchicago.edu/ochre?uuid="
                                    \o imageLink.uuid \o "&preview")
                         ELSE Null,
                       cssStyles |-> cssStyles.value],
                    webpages |-> webpages.value],
                   elements.fetched \o webpages.fetched)

\* websiteSchema
WebsiteTypes ==
  {"traditional", "digital-collection", "plum", "cedar", "elm", "maple", "oak", "palm"}
WebsiteStatuses == {"development", "preview", "production"}
WebsitePrivacies == {"public", "password", "private"}

Yes == <<"Y", "e", "s">>

\* properties.find((property) => property.label === label)?.values[0]?.content
FirstContent(properties, label) ==
  IF FirstValue(properties, label) = Null THEN Null
  ELSE Str(FirstValue(properties, label).content)

\* isDisplayed = default; if (property) isDisplayed = property.content === "Yes"
VisibilityFlag(properties, label, default) ==
  IF FirstValue(properties, label) = Null THEN default
  ELSE FirstValue(properties, label).content = Yes

websiteSchemaAcceptsAnyPrivacy(type, status, privacy) ==
  /\ AsString(type.v) \in WebsiteTypes
  /\ AsString(status.v) \in WebsiteStatuses

\* websiteSchema.safeParse({ type, status, privacy }).success
websiteSchema(type, status, privacy) ==
  /\ AsString(type.v) \in WebsiteTypes
  /\ AsString(status.v) \in WebsiteStatuses
  /\ AsString(privacy.v) \in WebsitePrivacies

parseWebsiteProperties(properties) ==
  LET mainProperties == parseProperties(properties, DefaultLanguage)
  IN IF ~mainProperties.ok THEN mainProperties
     ELSE IF ~HasLabel(mainProperties.value, <<"presentation">>)
     THEN Throw("Presentation property not found")
     ELSE
       LET websiteProperties ==
             FindByLabel(mainProperties.value, <<"presentation">>).properties
           type == FirstContent(websiteProperties, "webUI")
           status == FirstContent(websiteProperties, "status")
           privacy == IF FirstContent(websiteProperties, "privacy") = Null
                      THEN Str(<<"public">>)
                      ELSE FirstContent(websiteProperties, "privacy")
           logo == FirstValue(websiteProperties, "logo")
           collectionSearchProperty == FirstValue(websiteProperties, "search-collection")
       IN IF type = Null THEN Throw("Website type not found")
          ELSE IF status = Null THEN Throw("Website status not found")
          ELSE IF ~websiteSchema(type, status, privacy)
          THEN Throw("Invalid website properties: ZodError")
          ELSE Ok([type |-> type.v,
                   privacy |-> privacy.v,
                   status |-> status.v,
                   isHeaderDisplayed |->
                     VisibilityFlag(websiteProperties, "navbar-visible", TRUE),
                   isFooterDisplayed |->
                     VisibilityFlag(websiteProperties, "footer-visible", TRUE),
                   isSidebarDisplayed |->
                     VisibilityFlag(websiteProperties, "sidebar-visible", FALSE),
                   searchCollectionUuid |->
                     IF collectionSearchProperty # Null
                     THEN collectionSearchProperty.uuid ELSE Null,
                   logoUrl |->
                     IF logo # Null /\ logo.uuid # Null
                     THEN Str("https://ochre.lib.uchicago.edu/ochre?uuid="
                                \o logo.uuid.v \o "&load")
                     ELSE Null])

\* for (const page of pagesToParse), from position i
RECURSIVE WebpagesLoop(_, _, _)
WebpagesLoop(pagesToParse, fetchResource, i) ==
  IF i > Len(pagesToParse) THEN WOk(<<>>, <<>>)
  ELSE LET webpage == parseWebpage(pagesToParse[i], fetchResource)
       IN IF ~webpage.ok THEN webpage
          ELSE LET rest == WebpagesLoop(pagesToParse, fetchResource, i + 1)
               IN IF ~rest.ok THEN [rest EXCEPT !.fetched = webpage.fetched \o @]
                  ELSE WOk((IF webpage.value = Null THEN <<>> ELSE <<webpage.value>>)
                             \o rest.value,
                           webpage.fetched \o rest.fetched)

parseWebpages(webpageResources, fetchResource) ==
  WebpagesLoop(webpageResources, fetchResource, 1)

\* resourceProperties.some(presentation "element" whose first child is the
\* component "sidebar")
IsSidebar(resourceProperties) ==
  \E i \in 1..Len(resourceProperties) :
     LET property == resourceProperties[i]
     IN /\ property.label = <<"presentation">>
        /\ Len(property.values) > 0
        /\ property.values[1].content = <<"element">>
        /\ Len(property.properties) > 0
        /\ property.properties[1].label = <<"component">>
        /\ Len(property.properties[1].values) > 0
        /\ property.properties[1].values[1].content = <<"sidebar">>

\* resources.find(...): the position of the sidebar, 0 when there is none;
\* parseWebpages has parsed the properties of every resource before
RECURSIVE FindSidebar(_, _)
FindSidebar(resources, i) ==
  IF i > Len(resources) THEN 0
  ELSE IF IsSidebar(ResourceProperties(resources[i]).value) THEN i
  ELSE FindSidebar(resources, i + 1)

\* for (const resource of sidebarResources), from position i
RECURSIVE SidebarLoop(_, _, _)
SidebarLoop(sidebarResources, fetchResource, i) ==
  IF i > Len(sidebarResources) THEN WOk(<<>>, <<>>)
  ELSE
    LET resource == sidebarResources[i]
        sidebarResourceProperties == ResourceProperties(resource)
        found == FindPresentation(sidebarResourceProperties.value, "element", FALSE, 1)
        element ==
          IF ~sidebarResourceProperties.ok
          THEN WThrow(sidebarResourceProperties.error, <<>>)
          ELSE parseWebElement(resource,
                               IF found = 0 THEN <<>>
                               ELSE sidebarResourceProperties.value[found].properties,
                               fetchResource)
    IN IF ~element.ok THEN element
       ELSE LET rest == SidebarLoop(sidebarResources, fetchResource, i + 1)
            IN IF ~rest.ok THEN [rest EXCEPT !.fetched = element.fetched \o @]
               ELSE WOk(<<element.value>> \o rest.value, element.fetched \o rest.fetched)

\* the website trees of the model carry no creators
parseWebsite(websiteTree, projectName, website, fetchResource) ==
  IF "properties" \notin DOMAIN websiteTree
  THEN WThrow("Website properties not found", <<>>)
  ELSE
    LET properties == parseWebsiteProperties(Normalize(websiteTree.properties.property))
    IN IF ~properties.ok THEN WThrow(properties.error, <<>>)
       ELSE IF "resource" \notin DOMAIN websiteTree.items
       THEN WThrow("Website pages not found", <<>>)
       ELSE
         LET resources == Normalize(websiteTree.items.resource)
             pages == parseWebpages(resources, fetchResource)
             sidebar == FindSidebar(resources, 1)
             sidebarElements ==
               IF sidebar = 0 THEN WOk(<<>>, <<>>)
               ELSE SidebarLoop(ResourceChildren(resources[sidebar]), fetchResource, 1)
         IN IF ~pages.ok THEN pages
            ELSE IF ~sidebarElements.ok
            THEN [sidebarElements EXCEPT !.fetched = pages.fetched \o @]
            ELSE WOk([uuid |-> websiteTree.uuid,
                      publicationDateTime |->
                        IF "publicationDateTime" \in DOMAIN websiteTree
                        THEN Date(websiteTree.publicationDateTime) ELSE Null,
                      identification |-> parseIdentification(websiteTree.identification),
                      project |->
                        [name |-> parseFakeString(projectName),
                         website |-> IF website # Null THEN Str(parseFakeString(website))
                                     ELSE Null],
                      creators |-> <<>>,
                      license |-> parseLicense(websiteTree.availability),
                      pages |-> pages.value,
                      sidebarElements |-> sidebarElements.value,
                      properties |-> properties.value],
                     pages.fetched \o sidebarElements.fetched)

(***************************************************************************)
(* fetchers: fetchByUuid, fetchTree, fetchWebsite.  The response is what   *)
(* the network gives for the request: the fetch rejects, or it resolves    *)
(* with response.ok and the JSON body.                                     *)
(***************************************************************************)
HexDigits ==
  {"0", "1", "2", "3", "4", "5", "6", "7", "8", "9",
   "a", "b", "c", "d", "e", "f", "A", "B", "C", "D", "E", "F"}

\* uuidSchema: z.string().uuid()
uuidSchema(uuid) ==
  /\ Len(uuid) = 36
  /\ \A i \in 1..36 :
        IF i \in {9, 14, 19, 24} THEN SubSeq(uuid, i, i) = "-"
        ELSE SubSeq(uuid, i, i) \in HexDigits

\* the tuple [error, value]
Pair(error, value) == Arr(<<error, value>>)

fetchByUuid(uuid, response) ==
  IF ~uuidSchema(uuid) THEN Pair(Str("Invalid UUID provided"), Null)
  ELSE IF response.rejected THEN Pair(Str("fetch failed"), Null)
  ELSE IF ~response.ok THEN Pair(Str("Failed to fetch OCHRE data"), Null)
  ELSE IF "ochre" \notin DOMAIN response.body
  THEN Pair(Str("Invalid OCHRE data: API response missing 'ochre' key"), Null)
  ELSE Pair(Null, response.body)

\* the languages of the model are given as an array
parseLanguages(language) ==
  Collect([i \in 1..Len(language.v) |->
             parseStringContent(language.v[i], DefaultLanguage)])

\* the metadata of the model carry no item
parseMetadata(metadata) ==
  LET strings == Collect(<<parseStringContent(metadata.dataset, DefaultLanguage),
                           parseStringContent(metadata.publisher, DefaultLanguage)>>)
      languages == parseLanguages(metadata.language)
      more == Collect(<<parseStringContent(metadata.identifier, DefaultLanguage),
                        parseStringContent(metadata.description, DefaultLanguage)>>)
  IN IF ~strings.ok THEN strings
     ELSE IF ~languages.ok THEN languages
     ELSE IF ~more.ok THEN more
     ELSE Ok([project |->
                IF "project" \in DOMAIN metadata
                THEN [identification |->
                        Merge(parseIdentification(metadata.project.identification),
                              [website |-> Get(metadata.project.identification,
                                               "website")])]
                ELSE Null,
              item |-> Null,
              dataset |-> strings.value[1],
              publisher |-> strings.value[2],
              languages |-> languages.value,
              identifier |-> more.value[1],
              description |-> more.value[2]])

\* the trees of the model carry no creators, date, spatialUnit, concept or
\* period
parseTree(tree) ==
  LET resources ==
        IF "resource" \in DOMAIN tree.items
        THEN parseResources(Arr(Normalize(tree.items.resource)), FALSE)
        ELSE Ok(<<>>)
      properties == ResourceProperties(tree)
  IN IF ~resources.ok THEN resources
     ELSE IF ~properties.ok THEN properties
     ELSE Ok([uuid |-> tree.uuid,
              variant |-> "tree",
              publicationDateTime |-> Date(Get(tree, "publicationDateTime")),
              identification |-> parseIdentification(tree.identification),
              creators |-> <<>>,
              license |-> parseLicense(tree.availability),
              date |-> Null,
              type |-> Get(tree, "type"),
              number |-> Get(tree, "n"),
              items |-> [resources |-> resources.value, spatialUnits |-> <<>>,
                         concepts |-> <<>>, periods |-> <<>>],
              properties |-> properties.value])

\* fetchers/tree.ts
fetchTree(uuid, response) ==
  LET fetched == fetchByUuid(uuid, response)
      error == fetched.v[1]
      dataRaw == fetched.v[2]
      tree == parseTree(dataRaw.ochre.tree)
      metadata == parseMetadata(dataRaw.ochre.metadata)
  IN IF error # Null THEN Null
     ELSE IF "tree" \notin DOMAIN dataRaw.ochre THEN Null
     ELSE IF ~tree.ok THEN Null
     ELSE IF ~metadata.ok THEN Null
     ELSE [jstype |-> "object", metadata |-> metadata.value, tree |-> tree.value]

\* utils/fetchers.ts
fetchWebsite(uuid, response, fetchResource) ==
  LET fetched == fetchByUuid(uuid, response)
      error == fetched.v[1]
      dataRaw == fetched.v[2]
      identification == dataRaw.ochre.metadata.project.identification
      projectName == parseStringContent(identification.label, DefaultLanguage)
      website == parseWebsite(dataRaw.ochre.tree, Str(projectName.value),
                              IF "website" \in DOMAIN identification
                              THEN Str(identification.website) ELSE Null,
                              fetchResource)
  IN IF error # Null THEN Pair(error, Null)
     ELSE IF "tree" \notin DOMAIN dataRaw.ochre
     THEN Pair(Str("Invalid OCHRE data: API response missing 'tree' key"), Null)
     ELSE IF "project" \notin DOMAIN dataRaw.ochre.metadata
     THEN Pair(Str("Invalid OCHRE data: API response missing "
                     \o "'metadata.project.identification' key"), Null)
     ELSE IF ~projectName.ok THEN Pair(Str(projectName.error), Null)
     ELSE IF ~website.ok THEN Pair(Str(website.error), Null)
     ELSE Pair(Null, website.value)

(***************************************************************************)
(* Inputs.                                                                 *)
(***************************************************************************)
Languages == {"eng", "fra", "spa"}

SeqsUpTo(S, n) == UNION {[1..k -> S] : k \in 0..n}
NonEmptySeqsUpTo(S, n) == UNION {[1..k -> S] : k \in 1..n}

\* option strings: tokens separated by single spaces
OptionStrings(options) ==
  {Join([i \in 1..Len(ts) |-> <<ts[i]>>], " ") : ts \in NonEmptySeqsUpTo(options, MaxTokens)}

RendStrings == OptionStrings(RenderOption) \cup {<<"strike">>, <<"bold", " ">>}
WhitespaceStrings == OptionStrings(WhitespaceOption) \cup {<<"tab">>}

PlainStrings == {<<"x">>, <<"i", "t", "&", "#", "3", "9", ";", "s">>}
FakeStrings == {Str(s) : s \in PlainStrings} \cup {Num(12), Bool(TRUE), Bool(FALSE)}

\* OchreStringItemContent
WithOptional(base, key, values) ==
  {base} \cup {[k \in DOMAIN base \cup {key} |-> IF k = key THEN val ELSE base[k]] : val \in values}

StringItemContents ==
  UNION {UNION {WithOptional(b, "whitespace", WhitespaceStrings \cup {<<>>})
                : b \in WithOptional([jstype |-> "object", content |-> c],
                                     "rend", RendStrings \cup {<<>>})}
         : c \in {Str(s) : s \in PlainStrings} \cup {Num(12)}}

SmallStringItemContents ==
  {[jstype |-> "object", content |-> Str(<<"x">>)],
   [jstype |-> "object", content |-> Str(<<"y">>), rend |-> <<"bold">>],
   [jstype |-> "object", content |-> Bool(TRUE), whitespace |-> <<"trailing">>]}

\* OchreStringItem payloads
StringPayloads ==
  FakeStrings \cup StringItemContents
    \cup {Arr(xs) : xs \in SeqsUpTo(SmallStringItemContents, MaxItems)}

SmallStringPayloads ==
  {Str(<<"x">>), Num(12),
   [jstype |-> "object", content |-> Str(<<"y">>), rend |-> <<"bold">>],
   Arr(<<[jstype |-> "object", content |-> Str(<<"z">>), whitespace |-> <<"leading">>],
         [jstype |-> "object", content |-> Bool(FALSE)]>>)}

ItemsOver(payloads) ==
  UNION {WithOptional([jstype |-> "object", string |-> p], "lang", {"eng", "fra"})
         : p \in payloads}

StringItems == ItemsOver(StringPayloads)
SmallStringItems == ItemsOver(SmallStringPayloads)

\* OchreStringContent
StringContents ==
  {[content |-> c] :
     c \in FakeStrings \cup SmallStringItems
             \cup {Arr(xs) : xs \in SeqsUpTo(SmallStringItems, MaxItems)}}

\* raw resources: a few field combinations at every node of a bounded tree
RawIdentification(label) == [jstype |-> "object", label |-> [content |-> label]]

RawContext == [jstype |-> "object", context |-> Arr(<<>>), displayPath |-> <<"p">>]
RawAvailability ==
  [jstype |-> "object",
   license |-> [jstype |-> "object", content |-> <<"C", "C">>, target |-> <<"u">>]]

BareResource ==
  [jstype |-> "object", uuid |-> "r-bare", type |-> "text", n |-> 1,
   identification |-> RawIdentification(Str(<<"x">>))]

FullResource ==
  [jstype |-> "object", uuid |-> "r-full", type |-> "text", n |-> 2,
   identification |-> RawIdentification(Str(<<"y">>)),
   publicationDateTime |-> <<"2", "0", "2", "4">>,
   availability |-> RawAvailability,
   context |-> RawContext,
   copyright |-> Str(<<"c">>)]

NoLabelResource ==
  [jstype |-> "object", uuid |-> "r-nolabel", type |-> "text", n |-> 3,
   identification |-> RawIdentification(Arr(<<>>)),
   context |-> RawContext]

NoDescriptionResource ==
  [jstype |-> "object", uuid |-> "r-nodesc", type |-> "text", n |-> 4,
   identification |-> RawIdentification(Str(<<"z">>)),
   description |-> [content |-> Arr(<<>>)]]

ResourceLeaves == {BareResource, FullResource, NoLabelResource, NoDescriptionResource}

WithKey(base, key, val) ==
  [k \in DOMAIN base \cup {key} |-> IF k = key THEN val ELSE base[k]]

RECURSIVE DeepResource(_)
DeepResource(d) ==
  IF d = 0 THEN FullResource
  ELSE WithKey(FullResource, "resource", Arr(<<BareResource, DeepResource(d - 1)>>))

\* the children an array may hold at depth d
ChildSamples(d) == {BareResource, FullResource, DeepResource(d)}

RECURSIVE RawResources(_)
RawResources(d) ==
  IF d = 0 THEN ResourceLeaves
  ELSE RawResources(d - 1)
         \cup {WithKey(r, "resource", c) : r \in ResourceLeaves, c \in RawResources(d - 1)}
         \cup {WithKey(r, "resource", Arr(cs)) :
                 r \in ResourceLeaves, cs \in SeqsUpTo(ChildSamples(d - 1), MaxItems)}

\* raw link items (OchreLinkItem)
sFootnote == <<"F", "o", "o", "t", "n", "o", "t", "e", " ", "1">>
sPublished == <<"2", "0", "2", "4">>

LinkItems ==
  {[jstype |-> "object", uuid |-> "u1"],
   [jstype |-> "object", uuid |-> "u2", type |-> <<"internalDocument">>,
    content |-> Str(sFootnote), publicationDateTime |-> sPublished],
   [jstype |-> "object", uuid |-> "u3", type |-> <<"image">>, rend |-> <<"inline">>,
    height |-> 3, width |-> 4, heightPreview |-> 1, widthPreview |-> 2,
    identification |-> RawIdentification(Str(<<"x">>))]}

\* link items supplying any subset of the four geometry numbers, zero included
GeometryKeys == {"height", "width", "heightPreview", "widthPreview"}
GeometryItems ==
  {[k \in {"jstype", "uuid"} \cup S |->
      IF k = "jstype" THEN "object" ELSE IF k = "uuid" THEN "u3"
      ELSE IF k = "height" THEN h ELSE IF k = "width" THEN 4
      ELSE IF k = "heightPreview" THEN 1 ELSE 2] :
     S \in SUBSET GeometryKeys, h \in {0, 3}}

LinkValues == LinkItems \cup {Arr(xs) : xs \in SeqsUpTo(LinkItems, MaxItems)}

\* the keys of the members of OchreLink
KnownLinkKeys ==
  {"resource", "concept", "set", "tree", "person", "bibliography", "epigraphicUnit"}

\* raw links with one known key, with two known keys, and with none
RawLinks ==
  {[k \in {"jstype", key} |-> IF k = "jstype" THEN "object" ELSE val] :
      key \in KnownLinkKeys \cup {"spatialUnit"}, val \in LinkValues}
    \cup {[k \in {"jstype", k1, k2} |->
             IF k = "jstype" THEN "object" ELSE IF k = k1 THEN v1 ELSE v2] :
            k1 \in {"tree", "set"}, k2 \in {"person", "bibliography"},
            v1 \in {[jstype |-> "object", uuid |-> "u1"]},
            v2 \in {Arr(<<[jstype |-> "object", uuid |-> "u4"],
                          [jstype |-> "object", uuid |-> "u5"]>>)}}
    \cup {[jstype |-> "object", resource |-> g] : g \in GeometryItems}
    \cup {[jstype |-> "object", resource |-> Arr(<<g1, g2>>)] :
            g1 \in {g \in GeometryItems : GeometryKeys \subseteq DOMAIN g},
            g2 \in GeometryItems}
    \cup {[jstype |-> "object"]}

\* link targets of annotation nodes
ResourceTypes == {<<"image">>, <<"internalDocument">>, <<"externalDocument">>, <<"audio">>}

LinkContents ==
  {Str(sFootnote),
   Str(<<"s", "e", "e", " ", "F", "O", "O", "T", "N", "O", "T", "E">>),
   Str(<<"n", "o", "t", "e", "<">>)}

Target(uuid) == [jstype |-> "object", uuid |-> uuid]

WithOptionals(bases, key, values) == UNION {WithOptional(b, key, values) : b \in bases}

ResourceTargets ==
  WithOptionals(
    WithOptionals(
      WithOptionals({Target("u1")}, "type", ResourceTypes),
      "content", LinkContents),
    "publicationDateTime", {sPublished})
  \cup WithOptionals({[jstype |-> "object", uuid |-> "u2", type |-> <<"internalDocument">>,
                       content |-> c] : c \in LinkContents},
                     "publicationDateTime", {sPublished})
  \cup WithOptionals({[jstype |-> "object", uuid |-> "u3", type |-> <<"image">>,
                       rend |-> <<"inline">>, height |-> 3, width |-> 4]},
                     "content", {Str(<<"x">>)})

PersonTargets ==
  WithOptionals(
    WithOptionals(
      WithOptionals({Target("u4")}, "type", {<<"author">>}),
      "identification", {RawIdentification(Str(<<"B", "o", "b">>)),
                         RawIdentification(Arr(<<>>))}),
    "publicationDateTime", {sPublished})

PlainTargets ==
  WithOptionals(WithOptionals({Target("u5")}, "type", {<<"book">>}),
                "publicationDateTime", {sPublished})

LinkTo(key, target) ==
  [k \in {"jstype", key} |-> IF k = "jstype" THEN "object" ELSE target]

AnnotationLinks ==
  {LinkTo("resource", t) : t \in ResourceTargets}
    \cup {LinkTo("resource", Arr(<<t, Target("u9")>>)) :
            t \in {[jstype |-> "object", uuid |-> "u2", type |-> <<"internalDocument">>,
                    content |-> Str(sFootnote)]}}
    \cup {LinkTo("person", t) : t \in PersonTargets}
    \cup {LinkTo(key, t) :
            key \in {"concept", "set", "bibliography", "tree", "epigraphicUnit"},
            t \in PlainTargets}

\* the links an annotation may carry after its first one
LaterLinks ==
  {LinkTo("resource", [jstype |-> "object", uuid |-> "u7", type |-> <<"internalDocument">>,
                       content |-> Str(sFootnote)]),
   LinkTo("concept", [jstype |-> "object", uuid |-> "u8",
                      publicationDateTime |-> sPublished]),
   LinkTo("tree", Target("u6"))}

DisplayStrings ==
  {Str(<<"x">>), Str(<<"a", "<", "b", "{">>), Str(<<>>),
   Str(<<"w", "w", "w", ".", "a", ".", "o", "r", "g">>)}

Annotation(string, links) ==
  [jstype |-> "object", annotation |-> "a1", string |-> string, links |-> links]

AnnotationNodes ==
  {Annotation(d, l) : d \in DisplayStrings, l \in AnnotationLinks}
    \cup {Annotation(d, Arr(<<l>> \o ls)) :
            d \in {Str(<<"x">>), Str(<<"w", "w", "w", ".", "a", ".", "o", "r", "g">>)},
            l \in AnnotationLinks, ls \in SeqsUpTo(LaterLinks, MaxItems - 1)}

sEmail == <<"b", "o", "b", "@", "a", ".", "o", "r", "g">>

FootnoteNode1 ==
  Annotation(Str(<<"1">>),
             LinkTo("resource", [jstype |-> "object", uuid |-> "u2",
                                 type |-> <<"internalDocument">>,
                                 content |-> Str(sFootnote)]))
FootnoteNode2 ==
  Annotation(Str(<<"2">>),
             Arr(<<LinkTo("resource", [jstype |-> "object", uuid |-> "u7",
                                       type |-> <<"internalDocument">>,
                                       content |-> Str(<<"F", "O", "O", "T", "N", "O", "T", "E">>),
                                       publicationDateTime |-> sPublished])>>))
ConceptNode ==
  Annotation(Str(<<"c">>),
             LinkTo("concept", [jstype |-> "object", uuid |-> "u8",
                                publicationDateTime |-> sPublished]))

\* the nodes of the documents of the model
DocumentNodes ==
  {Str(<<"x">>), Str(<<"m", "a", "i", "l", " ">> \o sEmail),
   FootnoteNode1, FootnoteNode2, ConceptNode,
   [jstype |-> "object", whitespace |-> <<"newline">>],
   [jstype |-> "object", content |-> Str(<<"y">>), rend |-> <<"bold">>,
    whitespace |-> <<"newline">>],
   [jstype |-> "object", string |-> Arr(<<FootnoteNode1, ConceptNode>>),
    whitespace |-> <<"trailing">>],
   [jstype |-> "object", string |-> FootnoteNode2]}

LeafNodes ==
  UNION {WithOptionals(WithOptionals({[jstype |-> "object", content |-> c]},
                                     "rend", {<<"bold">>, <<"italic", " ", "underline">>}),
                       "whitespace", {<<"newline">>, <<"leading">>, <<"tab">>})
         : c \in {Str(<<"x">>), Str(sEmail), Str(<<"i", "t", "&", "#", "3", "9", ";", "s">>)}}

DocumentItems ==
  AnnotationNodes \cup DocumentNodes \cup LeafNodes
    \cup {[jstype |-> "object", whitespace |-> <<"trailing">>]}

FootnoteArguments ==
  {Null, Arr(<<>>), Arr(<<[uuid |-> "u2", label |-> <<"0">>, content |-> <<>>]>>)}

RichTexts ==
  {[jstype |-> "object", string |-> p] :
     p \in {Str(<<"x">>), Num(12)} \cup DocumentNodes
             \cup {Arr(xs) : xs \in SeqsUpTo(DocumentNodes, MaxItems)}}

Documents ==
  RichTexts
    \cup {Arr(<<WithKey(a, "lang", "fra"), WithKey(b, "lang", "eng")>>) :
            a \in {[jstype |-> "object", string |-> Arr(<<FootnoteNode1>>)]},
            b \in {[jstype |-> "object", string |-> Arr(<<FootnoteNode2, ConceptNode>>)],
                   [jstype |-> "object", string |-> Str(<<"x">>)]}}
    \cup {Arr(<<>>)}

(***************************************************************************)
(* The program: a caller applies one operation at a time.                  *)
\* parsed property trees for the getters
PropertyValue(content) ==
  [content |-> content, type |-> Str("string"), category |-> Null,
   uuid |-> Null, publicationDateTime |-> Null]

Property(label, values, properties) ==
  [label |-> label, values |-> values, comment |-> Null, properties |-> properties]

PropertyLabels == {<<"a">>, <<"A">>, <<"b">>}

PropertyLeaves ==
  {Property(<<"a">>, <<PropertyValue(<<"x">>), PropertyValue(<<"y">>)>>, <<>>),
   Property(<<"a">>, <<>>, <<>>),
   Property(<<"b">>, <<PropertyValue(<<"z">>)>>, <<>>)}

PropertyTrees ==
  PropertyLeaves
    \cup {Property(<<"A">>, <<PropertyValue(<<"w">>)>>, <<leaf>>) : leaf \in PropertyLeaves}
    \cup {Property(<<"b">>, <<>>,
                   <<Property(<<"b">>, <<>>, <<>>),
                     Property(<<"A">>, <<>>,
                              <<Property(<<"a">>, <<PropertyValue(<<"v">>)>>, <<>>)>>)>>)}

PropertyLists == SeqsUpTo(PropertyTrees, MaxItems)

\* the options argument: omitted, or { searchNestedProperties }
PropertyOptions == {<<>>} \cup {<<[searchNestedProperties |-> b]>> : b \in BOOLEAN}

\* raw properties: a single value or child is a bare object, several an array
RawValue(content) == [jstype |-> "object", content |-> content]

RawProperty(label, values, children) ==
  LET base == [jstype |-> "object", label |-> [content |-> Str(label)]]
      withValue ==
        IF Len(values) = 0 THEN base
        ELSE WithKey(base, "value", IF Len(values) = 1 THEN values[1] ELSE Arr(values))
  IN IF Len(children) = 0 THEN withValue
     ELSE WithKey(withValue, "property",
                  IF Len(children) = 1 THEN children[1] ELSE Arr(children))

Tagged(label, tag) == RawProperty(<<label>>, <<RawValue(Str(<<tag>>))>>, <<>>)

NavigateToProperty == Tagged("navigate-to", "/about")
\* the label ends in an ellipsis, which parseProperties strips
LinkToProperty ==
  RawProperty(<<"link-to", " ", ".", ".", ".">>, <<RawValue(Str(<<"https://x">>))>>, <<>>)

RawComponent(tag, children) ==
  RawProperty(<<"component">>, <<RawValue(Str(<<tag>>))>>, children)

\* button components with every choice of navigate-to and link-to, with a
\* navigate-to property that has no value, and with one that is nested
ButtonComponents ==
  {RawComponent("button", children) :
     children \in {<<>>, <<NavigateToProperty>>, <<LinkToProperty>>, <<LinkToProperty, NavigateToProperty>>,
                   <<RawProperty(<<"navigate-to">>, <<>>, <<>>)>>,
                   <<RawProperty(<<"options">>, <<>>, <<NavigateToProperty>>)>>}}

UnknownTags == {"sidebar", "Button"}

LeafComponents ==
  ButtonComponents
    \cup {RawComponent(tag, <<>>) : tag \in {"text", "text-image", "image", "menu"}}
    \cup {RawComponent("text", <<Tagged("variant", "banner")>>)}
    \cup {RawComponent(tag, <<NavigateToProperty>>) : tag \in UnknownTags}

Parsed(property) == parseProperty(property, DefaultLanguage).value

InternalDocumentLink(uuid) ==
  [jstype |-> "object", uuid |-> uuid, type |-> <<"internalDocument">>]
ImageLink ==
  [jstype |-> "object", uuid |-> "u3", type |-> <<"image">>,
   height |-> 3, width |-> 4, heightPreview |-> 1, widthPreview |-> 2]

FetchedUuids == {"u2", "u4"}

\* the links of an element: none, a single link, several links, a link
\* without any known key
ElementLinks ==
  {[jstype |-> "object", resource |-> ImageLink],
   [jstype |-> "object", resource |-> InternalDocumentLink("u2")],
   [jstype |-> "object",
    resource |-> Arr(<<ImageLink, InternalDocumentLink("u4"), InternalDocumentLink("u2")>>)],
   Arr(<<[jstype |-> "object", resource |-> InternalDocumentLink("u2")],
         [jstype |-> "object", resource |-> InternalDocumentLink("u4")]>>),
   [jstype |-> "object"]}

InlineDocuments ==
  {[jstype |-> "object", content |-> [jstype |-> "object", string |-> Str(<<"i", "n">>)]],
   [jstype |-> "object", content |-> Arr(<<>>)]}

ElementResources ==
  WithOptionals(
    WithOptionals(
      {[jstype |-> "object", uuid |-> "e0", identification |-> RawIdentification(l)] :
         l \in {Str(<<"x">>), Arr(<<>>)}},
      "links", ElementLinks),
    "document", InlineDocuments)

ParsedDocument(content) == [content |-> content, footnotes |-> <<>>]

\* what the fetcher resolves to: null, or a resource with or without document
FetchOutcomes(content) ==
  {Null,
   [resource |-> [uuid |-> "f", document |-> Null]],
   [resource |-> [uuid |-> "f", document |-> ParsedDocument(content)]]}

Fetchers ==
  {[uuid \in FetchedUuids |-> IF uuid = "u2" THEN o2 ELSE o4] :
     o2 \in FetchOutcomes(<<"d", "2">>),
     o4 \in {Null, [resource |-> [uuid |-> "f", document |-> ParsedDocument(<<"d", "4">>)]]}}

FailingFetcher == [uuid \in FetchedUuids |-> Null]
WorkingFetcher ==
  [uuid \in FetchedUuids |->
     [resource |-> [uuid |-> "f", document |-> ParsedDocument(<<"d", uuid>>)]]]

\* child resources of a page or of a layout container
Presentation(type, children) ==
  RawProperty(<<"presentation">>, <<RawValue(Str(<<type>>))>>, children)

Child(uuid, slug, properties, links) ==
  LET base == [jstype |-> "object", uuid |-> uuid,
               identification |-> RawIdentification(Str(<<uuid>>)),
               slug |-> slug,
               properties |-> [jstype |-> "object",
                               property |-> IF Len(properties) = 1 THEN properties[1]
                                            ELSE Arr(properties)]]
  IN IF Len(links) = 0 THEN base ELSE WithKey(base, "links", links[1])

MenuElement == Presentation("element", <<RawComponent("menu", <<>>)>>)
CssPresentation == Presentation("css", <<Tagged("color", "red")>>)

ChildResources ==
  {Child("c-menu", <<"m">>, <<MenuElement>>, <<>>),
   Child("c-text", <<"t">>,
         <<Presentation("element", <<RawComponent("text", <<>>)>>)>>,
         <<[jstype |-> "object", resource |-> InternalDocumentLink("u2")]>>),
   Child("c-unknown", <<"u">>,
         <<Presentation("element", <<RawComponent("sidebar", <<>>)>>)>>, <<>>),
   Child("c-page", <<"p">>, <<Presentation("page", <<>>)>>, <<>>),
   Child("c-page-element", <<"p", "e">>, <<Presentation("page", <<>>), MenuElement>>, <<>>),
   Child("c-element-page", <<"e", "p">>, <<MenuElement, Presentation("page", <<>>)>>, <<>>),
   Child("c-css-element", <<"c", "e">>, <<CssPresentation, MenuElement>>, <<>>),
   Child("c-css", <<"c">>, <<CssPresentation>>, <<>>)}

\* element resources of the layout containers
ContainerResources ==
  {WithKey([jstype |-> "object", uuid |-> "e1",
            identification |-> RawIdentification(Str(<<"x">>))],
           "resource", IF Len(children) = 1 THEN children[1] ELSE Arr(children)) :
     children \in NonEmptySeqsUpTo({c \in ChildResources :
                                      c.uuid \in {"c-menu", "c-text", "c-unknown", "c-page"}},
                                   MaxItems)}

ElementCalls ==
  ({Parsed(c) : c \in LeafComponents} \X ElementResources)
    \cup ({Parsed(RawComponent(tag, <<>>)) : tag \in {"n-columns", "n-rows"}}
            \X ContainerResources)

\* raw slugs: the root, the empty string, and other strings with slashes
Slugs == {<<"/">>, <<>>, <<"/", "/">>, <<"/", "a">>, <<"a">>}

\* the properties of a page resource; under the last two parseWebpage skips it
PagePropertyLists ==
  {<<Presentation("page", <<>>)>>,
   <<Presentation("page", <<RawProperty(<<"header">>, <<RawValue(Bool(FALSE))>>, <<>>),
                           Tagged("width", "full")>>),
     CssPresentation>>,
   <<CssPresentation, Presentation("page", <<>>)>>,
   <<>>}

PageResource(slugs, properties, children) ==
  LET base == [jstype |-> "object", uuid |-> "page",
               identification |-> RawIdentification(Str(<<"T">>))]
      withSlug == IF Len(slugs) = 0 THEN base ELSE WithKey(base, "slug", slugs[1])
      withProperties ==
        IF Len(properties) = 0 THEN withSlug
        ELSE WithKey(withSlug, "properties",
                     [jstype |-> "object",
                      property |-> IF Len(properties) = 1 THEN properties[1]
                                   ELSE Arr(properties)])
  IN IF Len(children) = 0 THEN withProperties
     ELSE WithKey(withProperties, "resource",
                  IF Len(children) = 1 THEN children[1] ELSE Arr(children))

PageResources ==
  {PageResource(slugs, properties, children) :
     slugs \in {<<>>} \cup {<<s>> : s \in Slugs},
     properties \in PagePropertyLists,
     children \in SeqsUpTo(ChildResources, MaxItems)}

\* the presentation subtree of a website: any choice of webUI, status and
\* privacy, valid, invalid or absent
ThemeChoices == {<<>>} \cup {<<t>> : t \in WebsiteTypes \cup {"Plum", "modern"}}
StatusChoices == {<<>>} \cup {<<s>> : s \in WebsiteStatuses \cup {"draft"}}
PrivacyChoices == {<<>>} \cup {<<p>> : p \in WebsitePrivacies \cup {"secret"}}

OptionalTagged(label, choice) ==
  IF Len(choice) = 0 THEN <<>> ELSE <<Tagged(label, choice[1])>>

WebsitePresentation(theme, status, privacy, more) ==
  RawProperty(<<"presentation">>, <<>>,
              OptionalTagged("webUI", theme) \o OptionalTagged("status", status)
                \o OptionalTagged("privacy", privacy) \o more)

WebsitePropertyLists ==
  {<<WebsitePresentation(theme, status, privacy, <<>>)>> :
     theme \in ThemeChoices, status \in StatusChoices, privacy \in PrivacyChoices}
    \cup {<<Tagged("webUI", "plum"),
            WebsitePresentation(<<"plum">>, <<"preview">>, <<>>,
                                <<RawProperty(<<"navbar-visible">>,
                                              <<RawValue(Bool(FALSE))>>, <<>>),
                                  RawProperty(<<"sidebar-visible">>,
                                              <<RawValue(Bool(TRUE))>>, <<>>),
                                  RawProperty(<<"logo">>,
                                              <<WithKey(RawValue(Str(<<"logo">>)),
                                                        "uuid", "u9")>>, <<>>)>>)>>,
          <<Tagged("webUI", "plum"), Tagged("status", "preview")>>}

\* top-level resources of a website: pages, and a sidebar with its elements
TopPage(slug, children) ==
  PageResource(<<slug>>, <<Presentation("page", <<>>)>>, children)

SidebarResource(children) ==
  WithKey(Child("sidebar", <<"s">>,
                <<Presentation("element", <<RawComponent("sidebar", <<>>)>>)>>, <<>>),
          "resource", Arr(children))

ChildNamed(uuid) == CHOOSE c \in ChildResources : c.uuid = uuid

TopResources ==
  {TopPage(<<"/">>, <<>>),
   TopPage(<<"a">>, <<ChildNamed("c-menu"), ChildNamed("c-text")>>),
   TopPage(<<"b">>, <<ChildNamed("c-menu"), ChildNamed("c-unknown")>>),
   TopPage(<<"c">>, <<TopPage(<<"d">>, <<ChildNamed("c-unknown")>>)>>),
   SidebarResource(<<ChildNamed("c-menu")>>),
   SidebarResource(<<ChildNamed("c-menu"), ChildNamed("c-unknown")>>)}

WebsiteItems ==
  {Str(<<>>), [jstype |-> "object"]}
    \cup {[jstype |-> "object",
           resource |-> IF Len(rs) = 1 THEN rs[1] ELSE Arr(rs)] :
            rs \in NonEmptySeqsUpTo(TopResources, MaxItems)}

WebsiteTree(properties, items) ==
  LET base == [jstype |-> "object", uuid |-> "w1",
               identification |-> RawIdentification(Str(<<"W">>)),
               availability |-> RawAvailability,
               items |-> items]
  IN IF Len(properties) = 0 THEN base
     ELSE WithKey(base, "properties",
                  [jstype |-> "object",
                   property |-> IF Len(properties) = 1 THEN properties[1]
                                ELSE Arr(properties)])

WebsiteTrees ==
  {WebsiteTree(properties, items) :
     properties \in {<<>>,
                     <<WebsitePresentation(<<"plum">>, <<"preview">>, <<>>, <<>>)>>,
                     <<WebsitePresentation(<<"modern">>, <<"preview">>, <<>>, <<>>)>>},
     items \in WebsiteItems}

\* requests and responses of the fetchers
Uuids == {"9c4da06b-f15e-40af-a747-0933eaf3587e", "9c4da06b"}

RawMetadata(dataset, projects) ==
  LET base == [jstype |-> "object",
               dataset |-> [content |-> dataset],
               publisher |-> [content |-> Str(<<"P">>)],
               language |-> Arr(<<[content |-> Str(<<"eng">>)]>>),
               identifier |-> [content |-> Str(<<"I">>)],
               description |-> [content |-> Str(<<"D">>)]]
  IN IF Len(projects) = 0 THEN base
     ELSE WithKey(base, "project",
                  [jstype |-> "object", identification |-> projects[1]])

RawMetadatas ==
  {RawMetadata(dataset, projects) :
     dataset \in {Str(<<"S">>), Arr(<<>>)},
     projects \in {<<>>, <<RawIdentification(Str(<<"P">>))>>,
                   <<RawIdentification(Arr(<<>>))>>}}

\* trees of resources, and website trees
ResourceTrees ==
  {WebsiteTree(<<>>, items) :
     items \in {Str(<<>>),
                [jstype |-> "object", resource |-> BareResource],
                [jstype |-> "object",
                 resource |-> Arr(<<FullResource, NoDescriptionResource>>)]}}

FetchedWebsiteTrees ==
  {WebsiteTree(properties, items) :
     properties \in {<<>>,
                     <<WebsitePresentation(<<"plum">>, <<"preview">>, <<>>, <<>>)>>},
     items \in {Str(<<>>),
                [jstype |-> "object",
                 resource |-> TopPage(<<"a">>, <<ChildNamed("c-text")>>)],
                [jstype |-> "object",
                 resource |-> TopPage(<<"b">>, <<ChildNamed("c-unknown")>>)]}}

\* JSON bodies: without "ochre", with a resource, with one of the trees
OchreBodies(trees) ==
  {[jstype |-> "object"]}
    \cup {[jstype |-> "object",
           ochre |-> [jstype |-> "object", uuid |-> Str(<<"u">>),
                      metadata |-> metadata, resource |-> BareResource]] :
            metadata \in {RawMetadata(Str(<<"S">>), <<>>)}}
    \cup {[jstype |-> "object",
           ochre |-> [jstype |-> "object", uuid |-> Str(<<"u">>),
                      metadata |-> metadata, tree |-> tree]] :
            metadata \in RawMetadatas, tree \in trees}

Responses(trees) ==
  {[rejected |-> TRUE, ok |-> FALSE, body |-> [jstype |-> "object"]],
   [rejected |-> FALSE, ok |-> FALSE, body |-> [jstype |-> "object"]]}
    \cup {[rejected |-> FALSE, ok |-> TRUE, body |-> body] : body \in OchreBodies(trees)}

\* raw property trees whose labels and values carry one string per language
PropertyLanguages == {"eng", "fra"}

LanguageItem(lang, text) == [jstype |-> "object", string |-> Str(text), lang |-> lang]

Bilingual(english, french) ==
  Arr(<<LanguageItem("eng", english), LanguageItem("fra", french)>>)

\* OchrePropertyValue: a content and its type tag
TypedValue(content, type) == [jstype |-> "object", content |-> content, type |-> type]

RawPropertyOf(label, values, children) ==
  [k \in DOMAIN RawProperty(<<>>, values, children) |->
     IF k = "label" THEN [content |-> label]
     ELSE RawProperty(<<>>, values, children)[k]]

RawLabels == {Str(<<"p">>), Bilingual(<<"e">>, <<"f">>)}

RawValueLists ==
  {<<>>,
   <<TypedValue(Str(<<"7">>), <<"integer">>)>>,
   <<TypedValue(Bilingual(<<"y">>, <<"o">>), <<"string">>),
     TypedValue(Num(12), <<"decimal">>)>>}

RawPropertyLeaves ==
  {RawPropertyOf(label, values, <<>>) : label \in RawLabels, values \in RawValueLists}

RECURSIVE RawPropertyTrees(_)
RawPropertyTrees(depth) ==
  IF depth = 0 THEN RawPropertyLeaves
  ELSE LET below == RawPropertyTrees(depth - 1)
       IN below
            \cup {RawPropertyOf(label, values, <<child>>) :
                    label \in RawLabels,
                    values \in {<<>>, <<TypedValue(Str(<<"7">>), <<"integer">>)>>},
                    child \in below}
            \cup {RawPropertyOf(Bilingual(<<"g">>, <<"h">>), <<>>,
                                <<child, RawPropertyOf(Str(<<"q">>), <<>>, <<>>)>>) :
                    child \in below}

RawPropertyLists ==
  {<<>>}
    \cup {<<tree>> : tree \in RawPropertyTrees(MaxDepth)}
    \cup {<<RawPropertyOf(Str(<<"q">>), <<>>, <<>>), tree>> : tree \in RawPropertyTrees(1)}


\* the strings parseEmailAndUrl is applied to: up to MaxTokens tokens joined by one space
sUrl == <<"w", "w", "w", ".", "a", ".", "o", "r", "g">>

LinkifierTokens ==
  {<<"x">>, <<"a", ".">>, <<"(">>, <<>>,
   sEmail, <<"(">> \o sEmail \o <<")">>, sEmail \o <<",">>,
   sUrl, <<"[">> \o sUrl \o <<"]">>, sUrl \o <<"!">>}

LinkifierStrings ==
  {Join(tokens, " ") : tokens \in NonEmptySeqsUpTo(LinkifierTokens, MaxTokens)}


(***************************************************************************)
Init ==
  /\ pc = "idle"
  /\ call = <<"none", <<>>, <<>>>>

Call(name, a, r) ==
  /\ pc = "idle"
  /\ pc' = "done"
  /\ call' = <<name, a, r>>

CallNormalize ==
  \E v \in SmallStringItems \cup {Arr(xs) : xs \in SeqsUpTo(SmallStringItems, MaxItems)} :
     Call("normalize", [value |-> v], Normalize(v))

CallParseWhitespace ==
  \E s \in PlainStrings, w \in WhitespaceStrings :
     Call("parseWhitespace", [contentString |-> s, whitespace |-> w],
          parseWhitespace(s, w))

CallParseStringItem ==
  \E item \in StringItems :
     Call("parseStringItem", [item |-> item], parseStringItem(item))

CallParseStringContent ==
  \E content \in StringContents, language \in Languages \cup {Undefined} :
     Call("parseStringContent", [content |-> content, language |-> language],
          parseStringContent(content, WithDefault(language, DefaultLanguage)))

CallParseResource ==
  \E resource \in RawResources(MaxDepth), isNested \in BOOLEAN :
     Call("parseResource", [resource |-> resource, isNested |-> isNested],
          parseResource(resource, isNested))

CallParseResources ==
  \E resources \in SeqsUpTo(ChildSamples(MaxDepth - 1), MaxItems), isNested \in BOOLEAN :
     Call("parseResources", [resources |-> Arr(resources), isNested |-> isNested],
          parseResources(Arr(resources), isNested))

CallParseLink ==
  \E linkRaw \in RawLinks :
     Call("parseLink", [linkRaw |-> linkRaw], parseLink(linkRaw))

CallParseStringDocumentItem ==
  \E item \in DocumentItems, footnotes \in FootnoteArguments :
     Call("parseStringDocumentItem", [item |-> item, footnotes |-> footnotes],
          parseStringDocumentItem(item, footnotes))

CallParseDocument ==
  \E document \in Documents, language \in Languages \cup {Undefined} :
     Call("parseDocument", [document |-> document, language |-> language],
          parseDocument(document, WithDefault(language, DefaultLanguage)))

\* options: PropertyOptions = DEFAULT_OPTIONS
OptionsOrDefault(options) == IF Len(options) = 0 THEN DEFAULT_OPTIONS ELSE options[1]

CallGetPropertyByLabel ==
  \E properties \in PropertyLists, label \in PropertyLabels, options \in PropertyOptions :
     Call("getPropertyByLabel",
          [properties |-> properties, label |-> label, options |-> options],
          getPropertyByLabel(properties, label,
                             OptionsOrDefault(options).searchNestedProperties))

CallGetPropertyValueByLabel ==
  \E properties \in PropertyLists, label \in PropertyLabels, options \in PropertyOptions :
     Call("getPropertyValueByLabel",
          [properties |-> properties, label |-> label, options |-> options],
          getPropertyValueByLabel(properties, label,
                                  OptionsOrDefault(options).searchNestedProperties))

CallParseWebElementProperties ==
  \E pair \in ElementCalls, fetchResource \in Fetchers :
     Call("parseWebElementProperties",
          [componentProperty |-> pair[1], elementResource |-> pair[2],
           fetchResource |-> fetchResource],
          parseWebElementProperties(pair[1], pair[2], fetchResource))

CallParseWebpage ==
  \E webpageResource \in PageResources, fetchResource \in {FailingFetcher, WorkingFetcher} :
     Call("parseWebpage",
          [webpageResource |-> webpageResource, fetchResource |-> fetchResource],
          parseWebpage(webpageResource, fetchResource))

CallParseWebsiteProperties ==
  \E properties \in WebsitePropertyLists :
     Call("parseWebsiteProperties", [properties |-> properties],
          parseWebsiteProperties(properties))

CallParseWebsite ==
  \E websiteTree \in WebsiteTrees, website \in {Null, Str(<<"w">>)},
     fetchResource \in {FailingFetcher, WorkingFetcher} :
     Call("parseWebsite",
          [websiteTree |-> websiteTree, projectName |-> Str(<<"P">>),
           website |-> website, fetchResource |-> fetchResource],
          parseWebsite(websiteTree, Str(<<"P">>), website, fetchResource))

CallFetchByUuid ==
  \E uuid \in Uuids, response \in Responses(ResourceTrees) :
     Call("fetchByUuid", [uuid |-> uuid, response |-> response],
          fetchByUuid(uuid, response))

CallFetchTree ==
  \E uuid \in Uuids, response \in Responses(ResourceTrees) :
     Call("fetchTree", [uuid |-> uuid, response |-> response],
          fetchTree(uuid, response))

CallFetchWebsite ==
  \E uuid \in Uuids, response \in Responses(FetchedWebsiteTrees),
     fetchResource \in {FailingFetcher, WorkingFetcher} :
     Call("fetchWebsite",
          [uuid |-> uuid, response |-> response, fetchResource |-> fetchResource],
          fetchWebsite(uuid, response, fetchResource))

CallParseProperties ==
  \E properties \in RawPropertyLists, language \in PropertyLanguages \cup {Undefined} :
     Call("parseProperties", [properties |-> properties, language |-> language],
          parseProperties(properties, WithDefault(language, DefaultLanguage)))


CallParseEmailAndUrl ==
  \E string \in LinkifierStrings :
     Call("parseEmailAndUrl", [string |-> string], parseEmailAndUrl(string))


Return ==
  /\ pc = "done"
  /\ pc' = "idle"
  /\ call' = <<"none", <<>>, <<>>>>

Next ==
  \/ CallNormalize
  \/ CallParseWhitespace
  \/ CallParseStringItem
  \/ CallParseStringContent
  \/ CallParseResource
  \/ CallParseResources
  \/ CallParseLink
  \/ CallParseStringDocumentItem
  \/ CallParseDocument
  \/ CallGetPropertyByLabel
  \/ CallGetPropertyValueByLabel
  \/ CallParseWebElementProperties
  \/ CallParseWebpage
  \/ CallParseWebsiteProperties
  \/ CallParseWebsite
  \/ CallFetchByUuid
  \/ CallFetchTree
  \/ CallFetchWebsite
  \/ CallParseProperties
  \/ CallParseEmailAndUrl
  \/ Return

Spec == Init /\ [][Next]_vars

(***************************************************************************)
(* Properties.                                                             *)
(***************************************************************************)
Reverse(s) == [i \in 1..Len(s) |-> s[Len(s) + 1 - i]]

RequestedLanguage == WithDefault(args.language, DefaultLanguage)

\* C1: for a non-empty array of language items and a requested language L
\* (default "eng"), parseStringContent returns the rendering of the first
\* item whose lang equals L when there is one, and otherwise the rendering
\* of the item at index 0, without raising.
C1_LanguageSelection ==
  (op = "parseStringContent" /\ IsArray(args.content.content)
     /\ Len(args.content.content.v) > 0) =>
    LET items == args.content.content.v
        matching == {i \in 1..Len(items) : LangMatches(items[i], RequestedLanguage)}
    IN /\ ret.ok
       /\ matching # {} =>
            \E i \in matching :
               /\ \A j \in matching : i <= j
               /\ ret.value = parseStringItem(items[i])
       /\ matching = {} => ret.value = parseStringItem(items[1])

\* two items carry the requested language and render differently; the
\* first of them is not at index 0
C1_Witness ==
  /\ op = "parseStringContent"
  /\ IsArray(args.content.content)
  /\ Len(args.content.content.v) = 2
  /\ args.language = Undefined
  /\ LangMatches(args.content.content.v[2], "eng")
  /\ ~LangMatches(args.content.content.v[1], "eng")
  /\ parseStringItem(args.content.content.v[1]) # parseStringItem(args.content.content.v[2])
  /\ ret.ok /\ ret.value = parseStringItem(args.content.content.v[2])

Marker(option) ==
  CASE option = "bold" -> <<"*", "*">>
    [] option = "italic" -> <<"*">>
    [] option = "underline" -> <<"_">>

IsSpanWithRend(item) ==
  /\ item.string.jstype = "object"
  /\ Truthy(item.string, "rend")
  /\ renderOptionsSchema(item.string.rend).success

\* t1's marker innermost, tn's marker outermost
Wrapped(content, tokens) ==
  Flatten([i \in 1..Len(tokens) |-> Marker(Reverse(tokens)[i])])
    \o content
    \o Flatten([i \in 1..Len(tokens) |-> Marker(tokens[i])])

\* C2: a span with rend tokens t1 ... tn is wrapped with t1's marker innermost
\* and tn's outermost (bold "**", italic "*", underline "_"), and its
\* whitespace options are applied only after all render options;
\* {content: "x", rend: "bold italic"} yields "**x**" wrapped in "*".
C2_RenderOrder ==
  (op = "parseStringItem" /\ IsSpanWithRend(args.item)) =>
    LET span == args.item.string
        wrapped == Wrapped(parseFakeString(span.content),
                           renderOptionsSchema(span.rend).data)
    IN /\ ret = IF Truthy(span, "whitespace")
                THEN parseWhitespace(wrapped, span.whitespace)
                ELSE wrapped
       /\ (span.content = Str(<<"x">>) /\ span.rend = <<"bold", " ", "italic">>
             /\ ~Truthy(span, "whitespace"))
            => ret = <<"*">> \o <<"*", "*", "x", "*", "*">> \o <<"*">>

\* a span rendered underline-then-bold with a leading space added afterwards
C2_Witness ==
  /\ op = "parseStringItem"
  /\ IsSpanWithRend(args.item)
  /\ args.item.string.rend = <<"underline", " ", "bold">>
  /\ Truthy(args.item.string, "whitespace")
  /\ args.item.string.whitespace = <<"leading">>
  /\ args.item.string.content = Str(<<"x">>)
  /\ ret = <<" ", "*", "*", "_", "x", "_", "*", "*">>

ClaimedWhitespace(returnString, option) ==
  CASE option = "newline" -> returnString \o <<" ", " ", "\n">>
    [] option = "trailing" -> returnString \o <<" ">>
    [] option = "leading" -> <<" ">> \o returnString

RECURSIVE ClaimedWhitespaceFold(_, _)
ClaimedWhitespaceFold(returnString, tokens) ==
  IF Len(tokens) = 0 THEN returnString
  ELSE ClaimedWhitespaceFold(ClaimedWhitespace(returnString, Head(tokens)), Tail(tokens))

\* C3: parseWhitespace maps each token, in order: "newline" appends exactly
\* two spaces and a line break, "trailing" appends one space, "leading"
\* prepends one space; nothing else is added.
C3_WhitespaceMapping ==
  (op = "parseWhitespace" /\ whitespaceSchema(args.whitespace).success) =>
    ret = ClaimedWhitespaceFold(RestoreApostrophes(args.contentString),
                                whitespaceSchema(args.whitespace).data)

\* C4: parseStringContent raises and returns no string for an empty array of
\* language items, whatever the language; for a primitive, a single item or
\* a non-empty array it returns a string and does not raise.
C4_EmptyArrayRaises ==
  op = "parseStringContent" =>
    IF IsArray(args.content.content) /\ Len(args.content.content.v) = 0
    THEN ~ret.ok /\ "value" \notin DOMAIN ret
    ELSE ret.ok /\ ret.value \in Seq({ret.value[i] : i \in DOMAIN ret.value})

C4_Witness ==
  /\ op = "parseStringContent"
  /\ args.content.content = Arr(<<>>)
  /\ args.language = "fra"
  /\ ~ret.ok

\* C5: Array.isArray(v) ? v : [v] is total and idempotent: a non-array value
\* yields a one-element array holding it, an array keeps its elements and
\* order, normalising the result again yields the same array; parseResources,
\* which re-normalises the array its caller normalised, processes exactly the
\* same items in the same order.
C5_NormalizeIdempotent ==
  /\ op = "normalize" =>
       /\ ~IsArray(args.value) => (Len(ret) = 1 /\ ret[1] = args.value)
       /\ IsArray(args.value) =>
            (Len(ret) = Len(args.value.v)
               /\ \A i \in 1..Len(ret) : ret[i] = args.value.v[i])
       /\ Normalize(Arr(ret)) = ret
  /\ (op = "parseResources" /\ ret.ok) =>
       /\ Len(ret.value) = Len(args.resources.v)
       /\ \A i \in 1..Len(ret.value) : ret.value[i].uuid = args.resources.v[i].uuid

\* an array of two items normalised, and two different resources parsed in order
C5_Witness ==
  \/ /\ op = "normalize" /\ IsArray(args.value) /\ Len(args.value.v) = 2
     /\ args.value.v[1] # args.value.v[2] /\ ret = args.value.v
  \/ /\ op = "parseResources" /\ ret.ok /\ Len(ret.value) = 2
     /\ ret.value[1].uuid # ret.value[2].uuid

\* C6: whatever availability, context and copyright the raw resource carries,
\* parseResource(resource, isNested = true) returns an object on which none of
\* the keys license, context, copyright is present.
C6_NestedHasNoProvenanceKeys ==
  (op = "parseResource" /\ args.isNested /\ ret.ok) =>
    DOMAIN ret.value \cap {"license", "context", "copyright"} = {}

RECURSIVE AllNestedForm(_)
AllNestedForm(resources) ==
  \A i \in 1..Len(resources) :
     /\ DOMAIN resources[i] \cap DeletedWhenNested = {}
     /\ AllNestedForm(resources[i].resources)

RECURSIVE Height(_)
Height(resource) ==
  IF Len(resource.resources) = 0 THEN 0
  ELSE 1 + Height(resource.resources[
                    CHOOSE i \in 1..Len(resource.resources) :
                      \A j \in 1..Len(resource.resources) :
                         Height(resource.resources[j]) <= Height(resource.resources[i])])

\* C7: for either value of isNested and every depth of the raw tree, every
\* resource reached through a resources child list is in nested form (it was
\* assembled with isNested = true); only the root can be a full Resource.
C7_ChildrenAreNested ==
  (op = "parseResource" /\ ret.ok) =>
    /\ AllNestedForm(ret.value.resources)
    /\ ~args.isNested => DeletedWhenNested \subseteq DOMAIN ret.value

\* a full root over two levels of children whose raw form carries provenance
C7_Witness ==
  /\ op = "parseResource" /\ ~args.isNested /\ ret.ok
  /\ Height(ret.value) >= 2
  /\ "publicationDateTime" \in DOMAIN ret.value
  /\ \E i \in 1..Len(args.resource.resource.v) :
        "availability" \in DOMAIN args.resource.resource.v[i]
  /\ AllNestedForm(ret.value.resources)

PresentLinkKeys(linkRaw) == DOMAIN linkRaw \cap KnownLinkKeys

\* C10: for a raw link whose single present key K is one of resource, concept,
\* set, tree, person, bibliography, epigraphicUnit, parseLink returns one Link
\* per item stored under K, in the same order, each with variant = K and
\* uuid = that item's uuid; with none of these keys it fails with an
\* invalid-link error and returns no Link.
C10_ParseLinkSingleKey ==
  op = "parseLink" =>
    /\ \A K \in KnownLinkKeys :
         PresentLinkKeys(args.linkRaw) = {K} =>
           LET items == IF IsArray(args.linkRaw[K])
                        THEN args.linkRaw[K].v ELSE <<args.linkRaw[K]>>
           IN /\ ret.ok
              /\ Len(ret.value) = Len(items)
              /\ \A i \in 1..Len(items) :
                    ret.value[i].variant = K /\ ret.value[i].uuid = items[i].uuid
    /\ PresentLinkKeys(args.linkRaw) = {} =>
         (~ret.ok /\ ret.error = "Invalid link provided" /\ "value" \notin DOMAIN ret)

\* an epigraphicUnit link holding two different items
C10_Witness ==
  /\ op = "parseLink"
  /\ PresentLinkKeys(args.linkRaw) = {"epigraphicUnit"}
  /\ ret.ok /\ Len(ret.value) = 2
  /\ ret.value[1].uuid # ret.value[2].uuid
  /\ ret.value[2].variant = "epigraphicUnit"

\* the raw items parseLink reads its links from
LinkItemsOf(linkRaw) == Normalize(linkRaw[FirstPresentKey(linkRaw, LinkPayloadKeys)])

IsAnnotation(item) == item.jstype = "object" /\ "links" \in DOMAIN item

FirstLink(item) == IF IsArray(item.links) THEN item.links.v[1] ELSE item.links

\* s contains "footnote" in some mixture of letter cases
ContainsFootnoteAnyCase(s) ==
  \E i \in 1..(Len(s) - 7) :
     \A k \in 1..8 :
        s[i + k - 1] \in {<<"f", "o", "o", "t", "n", "o", "t", "e">>[k],
                          <<"F", "O", "O", "T", "N", "O", "T", "E">>[k]}

\* the first link of the annotation is a resource of type internalDocument
\* whose content contains "footnote"
IsFootnoteAnnotation(item) ==
  /\ IsAnnotation(item)
  /\ (IsArray(item.links) => Len(item.links.v) > 0)
  /\ "resource" \in DOMAIN FirstLink(item)
  /\ LET target == FirstTarget(FirstLink(item).resource)
     IN /\ "type" \in DOMAIN target /\ target.type = <<"internalDocument">>
        /\ "content" \in DOMAIN target /\ target.content.jstype = "string"
        /\ ContainsFootnoteAnyCase(target.content.v)

FootnoteUuid(item) == FirstTarget(FirstLink(item).resource).uuid

LinkMarkup == {"<ExternalLink", "</ExternalLink>", "<TooltipSpan", "</TooltipSpan>"}

\* the uuids of the footnote annotations of a node list, in order of appearance
RECURSIVE FootnoteUuids(_)
FootnoteUuids(items) ==
  IF Len(items) = 0 THEN <<>>
  ELSE LET item == Head(items)
           here == IF IsPrimitive(item) THEN <<>>
                   ELSE IF IsFootnoteAnnotation(item) THEN <<FootnoteUuid(item)>>
                   ELSE IF "string" \in DOMAIN item /\ ~IsAnnotation(item)
                        THEN FootnoteUuids(Normalize(item.string))
                        ELSE <<>>
       IN here \o FootnoteUuids(Tail(items))

\* C8: when parseDocument renders an annotation node whose link is a resource
\* of type internalDocument whose content contains "footnote" in any letter
\* case, exactly one Footnote with the link's uuid is added to the returned
\* Document's footnotes for that node, and the text rendered for the node is
\* a Footnote marker without ExternalLink or TooltipSpan markup.
C8_FootnoteLaw ==
  /\ (op = "parseStringDocumentItem" /\ IsFootnoteAnnotation(args.item)) =>
       /\ ret.ok
       /\ args.footnotes # Null =>
            /\ Len(ret.footnotes.v) = Len(args.footnotes.v) + 1
            /\ SubSeq(ret.footnotes.v, 1, Len(args.footnotes.v)) = args.footnotes.v
            /\ ret.footnotes.v[Len(ret.footnotes.v)].uuid = FootnoteUuid(args.item)
       /\ StartsWith(ret.string,
                     <<" ", "<Footnote", " ", "uuid=\"", FootnoteUuid(args.item), "\"">>)
       /\ EndsWith(ret.string, <<" ", "/>">>)
       /\ \A i \in 1..Len(ret.string) : ret.string[i] \notin LinkMarkup
  /\ (op = "parseDocument" /\ ret.ok /\ ~IsArray(args.document)
        /\ ~IsPrimitive(args.document.string)) =>
       [i \in 1..Len(ret.value.footnotes) |-> ret.value.footnotes[i].uuid]
         = FootnoteUuids(Normalize(args.document.string))

\* a document with two footnote annotations, one of them inside a composite
\* node, the other with its content in capitals
C8_Witness ==
  /\ op = "parseDocument" /\ ret.ok /\ ~IsArray(args.document)
  /\ IsArray(args.document.string)
  /\ Len(ret.value.footnotes) = 2
  /\ ret.value.footnotes[1].uuid = "u7"
  /\ ret.value.footnotes[2].uuid = "u2"
  /\ \E i \in 1..Len(args.document.string.v) :
        /\ ~IsAnnotation(args.document.string.v[i])
        /\ "string" \in DOMAIN args.document.string.v[i]

\* C9: for an annotation node with two or more links, the returned string (and
\* any footnote recorded) is determined by the display text and the first link
\* alone: nodes that differ only in their second and later links render
\* identically, whatever the variant or type of the first link.
C9_OnlyFirstLink ==
  (op = "parseStringDocumentItem" /\ IsAnnotation(args.item)
     /\ IsArray(args.item.links) /\ Len(args.item.links.v) >= 2) =>
    \A later \in NonEmptySeqsUpTo(LaterLinks, 1) :
       parseStringDocumentItem(
         WithKey(args.item, "links", Arr(<<args.item.links.v[1]>> \o later)),
         args.footnotes) = ret

\* every label of a property tree, at any depth
RECURSIVE LabelsAtAnyDepth(_)
LabelsAtAnyDepth(properties) ==
  UNION {{properties[i].label} \cup LabelsAtAnyDepth(properties[i].properties) :
           i \in 1..Len(properties)}

LabelsAtCurrentLevel(properties) == {properties[i].label : i \in 1..Len(properties)}

IsGetterCall == op \in {"getPropertyByLabel", "getPropertyValueByLabel"}

SearchesNested == OptionsOrDefault(args.options).searchNestedProperties

\* C20: getPropertyByLabel and getPropertyValueByLabel return null when no
\* property whose label equals the requested label exactly (case-sensitively)
\* exists at the current level, or at any depth when searchNestedProperties is
\* true; with searchNestedProperties false (the default, also taken when the
\* options are omitted) a non-null result is the first property of the current
\* level with that label, or the content of its first value, never one of a
\* nested level.
C20_GettersAbsence ==
  IsGetterCall =>
    /\ (~SearchesNested /\ args.label \notin LabelsAtCurrentLevel(args.properties))
         => ret = Null
    /\ (SearchesNested /\ args.label \notin LabelsAtAnyDepth(args.properties))
         => ret = Null
    /\ (~SearchesNested /\ ret # Null) =>
         \E i \in 1..Len(args.properties) :
            /\ args.properties[i].label = args.label
            /\ \A j \in 1..(i - 1) : args.properties[j].label # args.label
            /\ IF op = "getPropertyByLabel" THEN ret = args.properties[i]
               ELSE /\ Len(args.properties[i].values) > 0
                    /\ ret = Str(args.properties[i].values[1].content)

\* the label "a" is asked for with the default options in a tree that holds it
\* only under a property labelled "A"
C20_Witness ==
  /\ op = "getPropertyValueByLabel"
  /\ args.options = <<>>
  /\ args.label = <<"a">>
  /\ LabelsAtCurrentLevel(args.properties) = {<<"A">>}
  /\ <<"a">> \in LabelsAtAnyDepth(args.properties)
  /\ ret = Null

\* the message contains the text
RECURSIVE ContainsFrom(_, _, _)
ContainsFrom(message, text, i) ==
  IF i + Len(text) - 1 > Len(message) THEN FALSE
  ELSE IF SubSeq(message, i, i + Len(text) - 1) = text THEN TRUE
  ELSE ContainsFrom(message, text, i + 1)

\* the error message names the component, in quotes
NamesComponent(result, componentName) ==
  /\ ~result.ok
  /\ ContainsFrom(result.error, "component: \"" \o componentName \o "\"", 1)

IsElementCall(tag) ==
  /\ op = "parseWebElementProperties"
  /\ args.componentProperty.values[1].content = <<tag>>

\* the component property has a child labelled label that has a value
HasChildValue(componentProperty, label) ==
  \E i \in 1..Len(componentProperty.properties) :
     /\ componentProperty.properties[i].label = <<label>>
     /\ Len(componentProperty.properties[i].values) > 0

LacksButtonTarget ==
  /\ ~HasChildValue(args.componentProperty, "navigate-to")
  /\ ~HasChildValue(args.componentProperty, "link-to")

\* a step that precedes the switch over the component failed: the links of
\* the element, its inline document, or the fetch of its linked document
EarlierStepFailed ==
  \/ ~ResourceLinks(args.elementResource).ok
  \/ ~ResolveDocument(args.elementResource, ResourceLinks(args.elementResource).value,
                      args.fetchResource).ok

\* C12 as stated: assembling a "button" element fails with an error naming
\* "button" if and only if the component property has neither a "navigate-to"
\* nor a "link-to" child value.
C12_ButtonFailsIffNoTarget ==
  IsElementCall("button") => (NamesComponent(ret, "button") <=> LacksButtonTarget)

\* C12 (amended): assembling a "button" element fails with an error naming
\* "button", and yields no element, if and only if the component property has
\* neither a "navigate-to" nor a "link-to" child value and no earlier step of
\* the assembly failed; when parsing the element's links, parsing its inline
\* document or fetching its internalDocument link fails, the assembly fails
\* with that step's error, which does not name "button", and yields no element
\* either.
C12_ButtonDependency ==
  IsElementCall("button") =>
    /\ NamesComponent(ret, "button") <=> (LacksButtonTarget /\ ~EarlierStepFailed)
    /\ EarlierStepFailed => (~ret.ok /\ ~NamesComponent(ret, "button"))
    /\ (LacksButtonTarget \/ EarlierStepFailed) => ~ret.ok

\* a button whose navigate-to property has no value and that has no link-to
C12_Witness ==
  /\ IsElementCall("button")
  /\ Len(args.componentProperty.properties) = 1
  /\ args.componentProperty.properties[1].label = <<"navigate-to">>
  /\ LacksButtonTarget
  /\ ~EarlierStepFailed
  /\ NamesComponent(ret, "button")

IsTextCall ==
  /\ op = "parseWebElementProperties"
  /\ args.componentProperty.values[1].content \in {<<"text">>, <<"text-image">>}

HasInlineDocument == "document" \in DOMAIN args.elementResource

\* the raw link items of the element, in order, when its links parse
ElementLinkItems == ResourceLinks(args.elementResource).value

\* the uuids of the element's links of type internalDocument, in order
DocumentLinkUuids ==
  LET positions == {i \in 1..Len(ElementLinkItems) :
                      ElementLinkItems[i].type = Str(<<"internalDocument">>)}
      RECURSIVE From(_)
      From(i) == IF i > Len(ElementLinkItems) THEN <<>>
                 ELSE IF i \in positions THEN <<ElementLinkItems[i].uuid>> \o From(i + 1)
                 ELSE From(i + 1)
  IN From(1)

\* no Document results: there is no inline document and no link of type
\* internalDocument, or the fetch of the first one fails, or the resource it
\* fetches has no document
NoDocumentResults ==
  /\ ~HasInlineDocument
  /\ ResourceLinks(args.elementResource).ok
  /\ \/ DocumentLinkUuids = <<>>
     \/ args.fetchResource[DocumentLinkUuids[1]] = Null
     \/ args.fetchResource[DocumentLinkUuids[1]].resource.document = Null

\* C13: a "text" or "text-image" element is only assembled with a resolved
\* Document, the inline document when there is one (the fetcher is then never
\* called), otherwise the document of the resource fetched through the first
\* link of type internalDocument; if no Document results (no such link, the
\* fetch fails, or the fetched resource has no document) the assembly fails
\* with an error naming the component and yields no element.
C13_TextNeedsDocument ==
  IsTextCall =>
    /\ HasInlineDocument => ret.fetched = <<>>
    /\ (ret.ok /\ HasInlineDocument) =>
         ret.value.content =
           parseDocument(args.elementResource.document.content, DefaultLanguage).value.content
    /\ (ret.ok /\ ~HasInlineDocument) =>
         /\ DocumentLinkUuids # <<>>
         /\ ret.fetched = <<DocumentLinkUuids[1]>>
         /\ ret.value.content =
              args.fetchResource[DocumentLinkUuids[1]].resource.document.content
    /\ NoDocumentResults =>
         NamesComponent(ret, AsString(args.componentProperty.values[1].content))

IsPageReturned == op = "parseWebpage" /\ ret.ok /\ ret.value # Null

\* C14: parseWebpage sets Webpage.slug to the empty string when the raw slug
\* is "/" and to the raw slug itself, unchanged, for every other raw slug
\* string.
C14_SlugRule ==
  IsPageReturned =>
    /\ args.webpageResource.slug = <<"/">> => ret.value.slug = <<>>
    /\ args.webpageResource.slug # <<"/">> => ret.value.slug = args.webpageResource.slug

\* a page with slug "/" that has one sub-page
C14_Witness ==
  /\ IsPageReturned
  /\ args.webpageResource.slug = <<"/">>
  /\ ret.value.slug = <<>>
  /\ Len(ret.value.webpages) = 1

\* the value of the first "presentation" property of a child resource
FirstPresentationOf(child) ==
  LET first == FirstValue(ResourceProperties(child).value, "presentation")
  IN IF first = Null THEN <<>> ELSE first.content

PageChildren == ResourceChildren(args.webpageResource)

InElements(child) ==
  \E i \in 1..Len(ret.value.elements) : ret.value.elements[i].uuid = child.uuid

InWebpages(child) ==
  \E i \in 1..Len(ret.value.webpages) : ret.value.webpages[i].slug = child.slug

\* C18: within one page, each child resource is classified by the value of its
\* first "presentation" property only, into page, element or neither: no
\* child appears both in the page's elements and in its webpages, and a child
\* that is neither page nor element appears in neither list.
C18_ClassifiedByFirstPresentation ==
  IsPageReturned =>
    \A k \in 1..Len(PageChildren) :
       LET child == PageChildren[k]
       IN /\ InElements(child) => FirstPresentationOf(child) = <<"element">>
          /\ InWebpages(child) => FirstPresentationOf(child) = <<"page">>
          /\ ~(InElements(child) /\ InWebpages(child))

\* the raw children of a raw property, and the raw children with a label
RawChildren(property) ==
  IF "property" \in DOMAIN property THEN Normalize(property.property) ELSE <<>>

RawWithLabel(properties, label) ==
  {i \in 1..Len(properties) : properties[i].label.content = Str(<<label>>)}

\* the tag the raw presentation subtree gives under label, "" when it gives none
PresentationTag(label) ==
  LET top == RawWithLabel(args.properties, "presentation")
      subtree == IF top = {} THEN <<>>
                 ELSE RawChildren(args.properties[CHOOSE i \in top : \A j \in top : i <= j])
      found == RawWithLabel(subtree, label)
  IN IF found = {} THEN ""
     ELSE subtree[CHOOSE i \in found : \A j \in found : i <= j].value.content.v[1]

\* C15: parseWebsiteProperties returns a WebsiteProperties value only when the
\* presentation subtree gives a theme type in the closed set of 8 tags, a
\* status in {development, preview, production} and a privacy in {public,
\* password, private}, an absent privacy being treated as "public"; for any
\* other type, status or privacy value it fails with an invalid-configuration
\* error and returns nothing.
C15_WebsiteConfiguration ==
  op = "parseWebsiteProperties" =>
    LET type == PresentationTag("webUI")
        status == PresentationTag("status")
        privacy == PresentationTag("privacy")
        valid == /\ type \in WebsiteTypes
                 /\ status \in WebsiteStatuses
                 /\ privacy \in WebsitePrivacies \cup {""}
    IN /\ ret.ok <=> valid
       /\ ret.ok =>
            /\ ret.value.type = <<type>>
            /\ ret.value.status = <<status>>
            /\ ret.value.privacy = IF privacy = "" THEN <<"public">> ELSE <<privacy>>
       /\ (~valid /\ type # "" /\ status # "") =>
            /\ ~ret.ok
            /\ ContainsFrom(ret.error, "Invalid website properties", 1)

\* a valid theme and status without privacy
C15_Witness ==
  /\ op = "parseWebsiteProperties"
  /\ PresentationTag("webUI") = "digital-collection"
  /\ PresentationTag("status") = "production"
  /\ PresentationTag("privacy") = ""
  /\ ret.ok
  /\ ret.value.privacy = <<"public">>

\* the component tag under which a child resource is assembled as an element,
\* "" when it is not an element
ElementTagOf(child) ==
  LET properties == ResourceProperties(child).value
      element == FindPresentation(properties, "element", FALSE, 1)
  IN IF element = 0 THEN ""
     ELSE IF ~HasLabel(properties[element].properties, <<"component">>) THEN ""
     ELSE AsString(FindByLabel(properties[element].properties,
                               <<"component">>).values[1].content)

\* an element with an unknown component tag lies among the children of the
\* resource that are assembled: its elements, the children of its layout
\* containers, the elements of its sub-pages
RECURSIVE AssemblesUnknownElement(_)
AssemblesUnknownElement(resource) ==
  \E k \in 1..Len(ResourceChildren(resource)) :
     LET child == ResourceChildren(resource)[k]
     IN \/ ElementTagOf(child) \in UnknownTags
        \/ /\ ElementTagOf(child) \in {"n-columns", "n-rows"}
           /\ AssemblesUnknownElement(child)
        \/ /\ FirstPresentationOf(child) = <<"page">>
           /\ AssemblesUnknownElement(child)

\* the top-level resources of a website tree
WebsiteResources ==
  IF "resource" \in DOMAIN args.websiteTree.items
  THEN Normalize(args.websiteTree.items.resource) ELSE <<>>

\* C19: assembling an element whose component tag is not a member of the
\* closed component set fails with an error: no WebElement is produced for
\* that element, and the failure makes the assembly of the enclosing layout
\* container, page and website (through its pages, or through the sidebar it
\* assembles, the first one) fail too, instead of the element being logged
\* and skipped.
C19_UnknownComponentFails ==
  /\ (op = "parseWebElementProperties"
        /\ AsString(args.componentProperty.values[1].content) \in UnknownTags)
       => (~ret.ok /\ ret.error = "ZodError: Invalid enum value" /\ ret.fetched = <<>>)
  /\ (op = "parseWebElementProperties" /\ AssemblesUnknownElement(args.elementResource)
        /\ args.componentProperty.values[1].content \in {<<"n-columns">>, <<"n-rows">>})
       => ~ret.ok
  /\ (op = "parseWebpage"
        /\ FirstPresentationOf(args.webpageResource) = <<"page">>
        /\ AssemblesUnknownElement(args.webpageResource))
       => ~ret.ok
  /\ (op = "parseWebsite"
        /\ \E k \in 1..Len(WebsiteResources) :
              /\ \/ FirstPresentationOf(WebsiteResources[k]) = <<"page">>
                 \/ /\ ElementTagOf(WebsiteResources[k]) = "sidebar"
                    /\ \A j \in 1..(k - 1) :
                         ElementTagOf(WebsiteResources[j]) # "sidebar"
              /\ AssemblesUnknownElement(WebsiteResources[k]))
       => ~ret.ok

\* a valid website whose only page holds a sub-page with an element of
\* component "sidebar"
C19_Witness ==
  /\ op = "parseWebsite"
  /\ "properties" \in DOMAIN args.websiteTree
  /\ Len(WebsiteResources) = 1
  /\ FirstPresentationOf(WebsiteResources[1]) = <<"page">>
  /\ Len(ResourceChildren(WebsiteResources[1])) = 1
  /\ FirstPresentationOf(ResourceChildren(WebsiteResources[1])[1]) = <<"page">>
  /\ AssemblesUnknownElement(ResourceChildren(WebsiteResources[1])[1])
  /\ parseWebsiteProperties(Normalize(args.websiteTree.properties.property)).ok
  /\ ~ret.ok
  /\ ret.error = "ZodError: Invalid enum value"

\* resolving a string of the identification of the raw resource raises
IdentificationFails(resource) ==
  \E k \in DOMAIN resource.identification \ {"jstype"} :
     ~parseStringContent(resource.identification[k], DefaultLanguage).ok

\* resolving a sub-field or a sub-entity of the raw resource raises
RECURSIVE SubFieldFails(_)
SubFieldFails(resource) ==
  \/ IdentificationFails(resource)
  \/ /\ "description" \in DOMAIN resource
     /\ ~parseStringContent(resource.description, DefaultLanguage).ok
  \/ /\ "resource" \in DOMAIN resource
     /\ \E i \in 1..Len(Normalize(resource.resource)) :
           SubFieldFails(Normalize(resource.resource)[i])

\* C16: entity assembly is all-or-nothing: if resolving any sub-field or
\* sub-entity raises an error (for example the missing-content error for an
\* identification label that is an empty language array), parseResource
\* raises as well and returns no entity in which the failed sub-field was
\* replaced by a placeholder value.
C16_AllOrNothing ==
  (op = "parseResource" /\ SubFieldFails(args.resource)) => ~ret.ok

EntryPoints == {"fetchByUuid", "fetchTree", "fetchWebsite"}

\* a pair in which exactly one slot is null
IsResultPair(result) ==
  /\ result.jstype = "array"
  /\ Len(result.v) = 2
  /\ (result.v[1] = Null) # (result.v[2] = Null)
  /\ result.v[1] # Null => result.v[1].jstype = "string"

\* C17: every top-level entry point (fetchByUuid, fetchTree, fetchWebsite)
\* resolves to a pair in which exactly one slot is null: (error message, null)
\* when validation, transport, kind check or parsing failed, and (null, value)
\* otherwise.
C17_ResultPair ==
  op \in EntryPoints =>
    /\ IsResultPair(ret)
    /\ (~uuidSchema(args.uuid) \/ args.response.rejected \/ ~args.response.ok
          \/ "ochre" \notin DOMAIN args.response.body)
         => ret.v[2] = Null

(***************************************************************************)
(* parseProperties: shape and language of the returned tree.               *)
(***************************************************************************)
RawValuesOf(property) ==
  IF "value" \in DOMAIN property THEN Normalize(property.value) ELSE <<>>

RawChildrenOf(property) ==
  IF "property" \in DOMAIN property THEN Normalize(property.property) ELSE <<>>

RECURSIVE SameShape(_, _)
SameShape(raw, parsed) ==
  /\ Len(parsed) = Len(raw)
  /\ \A i \in 1..Len(raw) :
       /\ Len(parsed[i].values) = Len(RawValuesOf(raw[i]))
       /\ \A j \in 1..Len(RawValuesOf(raw[i])) :
            parsed[i].values[j].type = Str(RawValuesOf(raw[i])[j].type)
       /\ parsed[i].properties = <<>> <=> "property" \notin DOMAIN raw[i]
       /\ SameShape(RawChildrenOf(raw[i]), parsed[i].properties)

RECURSIVE DepthOf(_)
DepthOf(raw) ==
  IF Len(raw) = 0 THEN 0
  ELSE LET below == {DepthOf(RawChildrenOf(raw[i])) : i \in 1..Len(raw)}
       IN 1 + CHOOSE d \in below : \A e \in below : e <= d

RECURSIVE ResolvedFor(_, _, _)
ResolvedFor(raw, parsed, language) ==
  \A i \in 1..Len(raw) :
    /\ parsed[i].label =
         Trim(StripEllipsis(parseStringContent(raw[i].label, language).value))
    /\ \A j \in 1..Len(RawValuesOf(raw[i])) :
         parsed[i].values[j].content =
           parseStringContent(RawValuesOf(raw[i])[j], language).value
    /\ ResolvedFor(RawChildrenOf(raw[i]), parsed[i].properties, language)

\* C25: for every requested language L, the label of every property at every
\* depth of the tree parseProperties returns, and the content of every Value,
\* is the string the resolver selects for L.
C25_LanguageThreaded ==
  op = "parseProperties" /\ ret.ok =>
    ResolvedFor(args.properties, ret.value, WithDefault(args.language, DefaultLanguage))

(***************************************************************************)
(* getters.ts: getPropertyValueByLabel against getPropertyByLabel.         *)
(***************************************************************************)
FirstValueOf(property) ==
  IF property = Null THEN Null
  ELSE IF Len(property.values) = 0 THEN Null
  ELSE Str(property.values[1].content)

\* C28: for every property tree, label and searchNestedProperties setting,
\* getPropertyValueByLabel returns the content of the first value of the
\* property getPropertyByLabel returns, and null when that property is absent
\* or has no values.
C28_ValueAgreesWithProperty ==
  op = "getPropertyValueByLabel" =>
    ret = FirstValueOf(getPropertyByLabel(args.properties, args.label,
                         OptionsOrDefault(args.options).searchNestedProperties))

(***************************************************************************)
(* parseDocument: the choice among language-tagged documents.              *)
(***************************************************************************)
\* the choice of the string resolver: the first item in the language, else the first
ResolverChoice(documents, language) ==
  IF \E i \in 1..Len(documents) : LangMatches(documents[i], language)
  THEN documents[CHOOSE i \in 1..Len(documents) :
                   /\ LangMatches(documents[i], language)
                   /\ \A j \in 1..(i - 1) : ~LangMatches(documents[j], language)]
  ELSE documents[1]

\* C23: given a non-empty array of language-tagged documents, parseDocument
\* renders the document tagged with the requested language if there is one
\* and otherwise the first document; it does not fail because no document
\* carries the requested language.
C23_DocumentLanguageFallback ==
  op = "parseDocument" /\ IsArray(args.document) /\ Len(args.document.v) > 0 =>
    ret = parseDocument(ResolverChoice(args.document.v,
                                       WithDefault(args.language, DefaultLanguage)),
                        WithDefault(args.language, DefaultLanguage))

(***************************************************************************)
(* parseLink on a raw link that carries several known keys.                *)
(***************************************************************************)
\* the payload under the key a returned Link names as its variant
VariantPayload(linkRaw, link) ==
  IF link.variant \in DOMAIN linkRaw THEN Normalize(linkRaw[link.variant]) ELSE <<>>

\* C24: for every raw link, including one that carries two or more known
\* keys, the variant of each Link parseLink returns names the key whose
\* payload supplied that Link's uuid.
C24_VariantNamesPayloadKey ==
  op = "parseLink" /\ ret.ok =>
    \A i \in 1..Len(ret.value) :
      /\ i <= Len(VariantPayload(args.linkRaw, ret.value[i]))
      /\ ret.value[i].uuid = VariantPayload(args.linkRaw, ret.value[i])[i].uuid

(***************************************************************************)
(* parseStringDocumentItem: an internalDocument link that is no footnote.  *)
(***************************************************************************)
\* the first link of the annotation is a resource of type internalDocument
\* whose content, if any, does not contain "footnote"
IsDocumentLinkAnnotation(item) ==
  /\ IsAnnotation(item)
  /\ (IsArray(item.links) => Len(item.links.v) > 0)
  /\ "resource" \in DOMAIN FirstLink(item)
  /\ LET target == FirstTarget(FirstLink(item).resource)
     IN /\ "type" \in DOMAIN target /\ target.type = <<"internalDocument">>
        /\ "content" \in DOMAIN target =>
             /\ target.content.jstype = "string"
             /\ ~ContainsFootnoteAnyCase(target.content.v)

HasUnit(string, unit) == \E i \in 1..Len(string) : string[i] = unit

\* C22: for an annotation whose link is a resource of type internalDocument
\* whose content does not contain "footnote", parseStringDocumentItem emits
\* an ExternalLink when the target has a publication timestamp and a
\* TooltipSpan without href when it has none.
C22_DocumentLinkClickableRule ==
  (op = "parseStringDocumentItem" /\ IsDocumentLinkAnnotation(args.item)) =>
    /\ ret.ok
    /\ IF Published(FirstTarget(FirstLink(args.item).resource))
       THEN HasUnit(ret.string, "<ExternalLink") /\ ~HasUnit(ret.string, "<TooltipSpan")
       ELSE /\ HasUnit(ret.string, "<TooltipSpan")
            /\ ~HasUnit(ret.string, "<ExternalLink")
            /\ ~HasUnit(ret.string, "href=\"")

(***************************************************************************)
(* parseStringDocumentItem: how often a node's text is linkified.          *)
(***************************************************************************)
IsLeafNode(item) ==
  /\ item.jstype = "object"
  /\ "content" \in DOMAIN item
  /\ DOMAIN item \cap {"links", "string"} = {}

IsCompositeNode(item) ==
  item.jstype = "object" /\ "string" \in DOMAIN item /\ "links" \notin DOMAIN item

\* the leaf nodes with the same content and any choice of rend and whitespace
OptionVariants(item) == {item} \cup {v \in LeafNodes : v.content = item.content}

\* the text of a leaf linkified `times` times, then rendered and spaced
LeafLinkified(item, times) ==
  LET content == parseFakeString(item.content)
      linkified == IF times = 0 THEN content ELSE parseEmailAndUrl(content)
      rendered == IF Truthy(item, "rend")
                  THEN parseRenderOptions(linkified, item.rend) ELSE linkified
      whitespaced == IF Truthy(item, "whitespace")
                     THEN parseWhitespace(rendered, item.whitespace) ELSE rendered
  IN RestoreApostrophes(whitespaced)

\* the concatenated children of a composite, spaced without another linkifier pass
CompositeNotRelinkified(item, footnotes) ==
  LET children == DocumentItemsLoop(Normalize(item.string), footnotes, 1)
  IN RestoreApostrophes(
       IF Truthy(item, "whitespace")
       THEN parseWhitespace(children.string, item.whitespace) ELSE children.string)

\* C29: parseStringDocumentItem applies parseEmailAndUrl to the text of a
\* leaf node the same number of times, at most one, whichever of rend and
\* whitespace the node carries, and never to text already linkified or
\* rendered: not to a leaf after its render step, nor to the concatenated
\* children of a composite node.
C29_LinkifiedAtMostOnce ==
  /\ (op = "parseStringDocumentItem" /\ IsLeafNode(args.item)) =>
       \E times \in {0, 1} :
          \A variant \in OptionVariants(args.item) :
             parseStringDocumentItem(variant, args.footnotes).string
               = LeafLinkified(variant, times)
  /\ (op = "parseStringDocumentItem" /\ IsCompositeNode(args.item) /\ ret.ok) =>
       ret.string = CompositeNotRelinkified(args.item, args.footnotes)

(***************************************************************************)
(* parseEmailAndUrl: one output token per input token.                     *)
(***************************************************************************)
\* the token with its address, if it is one, wrapped once in an ExternalLink
RewrittenToken(token) ==
  LET cleanString == CleanString(token)
      index == IndexOf(token, cleanString)
      before == Slice(token, 0, index)
      after == Slice(token, index + Len(cleanString), Len(token))
  IN IF emailSchema(cleanString) THEN EmailLink(before, cleanString, after)
     ELSE IF urlSchema(cleanString) THEN UrlLink(before, cleanString, after)
     ELSE token

\* C30: parseEmailAndUrl rewrites tokens in place: the output has one token
\* per single-space-separated token of the input, a token that is neither an
\* email address nor a URL unchanged at its position, and an email or URL
\* token replaced by its stripped leading punctuation, one ExternalLink
\* element around the cleaned address and its stripped trailing punctuation,
\* each once.
C30_TokensRewrittenInPlace ==
  op = "parseEmailAndUrl" =>
    LET tokens == Split(args.string, " ")
    IN ret = Join([i \in 1..Len(tokens) |-> RewrittenToken(tokens[i])], " ")

(***************************************************************************)
(* parse.ts: the traversal of one parseWebsite call as a process.  The     *)
(* async functions of the website builder run as one chain of awaited      *)
(* calls: `stack` holds the activations (parseWebsite at the bottom, then   *)
(* parseWebpage and parseWebElement), `pending` the uuids whose fetch has   *)
(* been issued and has not settled, `log` the events in order, `done` the   *)
(* lists of the activations that returned.  A raw resource is reduced to    *)
(* what the traversal reads: its presentation ("page", "element", "sidebar" *)
(* for the element whose component is sidebar, "none"), whether it has an   *)
(* internalDocument link and no inline document (fetches), and its child    *)
(* resources.                                                              *)
(***************************************************************************)
SiteNode(uuid, presentation, fetches, resource) ==
  [uuid |-> uuid, presentation |-> presentation, fetches |-> fetches,
   resource |-> resource]

SiteElement(uuid, fetches) == SiteNode(uuid, "element", fetches, <<>>)

\* the website trees of the traversal: the resources of websiteTree.items
Sites ==
  {<<SiteNode("p1", "page", FALSE,
              <<SiteNode("p2", "page", FALSE, <<SiteElement("e3", f3)>>),
                SiteElement("e1", f1),
                SiteNode("o1", "none", FALSE, <<>>),
                SiteElement("e2", TRUE)>>),
     SiteNode("s1", "sidebar", FALSE, sidebar)>> :
      f1 \in BOOLEAN, f3 \in BOOLEAN,
      sidebar \in {<<>>, <<SiteElement("e4", TRUE), SiteElement("e5", FALSE)>>}}
    \cup
  {<<SiteNode("o2", "none", FALSE, <<>>),
     SiteNode("p3", "page", FALSE,
              <<SiteNode("c1", "element", f1,
                         <<SiteElement("e6", TRUE), SiteElement("e7", f2)>>),
                SiteElement("e8", TRUE)>>),
     SiteNode("p4", "page", FALSE, <<>>)>> :
      f1 \in BOOLEAN, f2 \in BOOLEAN}

WebsiteNode(site) == SiteNode("website", "website", FALSE, site)

Frame(node, phase) ==
  [node |-> node, phase |-> phase, i |-> 1, elements |-> <<>>, webpages |-> <<>>]

\* resources.find(... "sidebar"): the children of the first sidebar resource
SidebarResources(site) ==
  IF \E k \in 1..Len(site) : site[k].presentation = "sidebar"
  THEN site[CHOOSE k \in 1..Len(site) :
              /\ site[k].presentation = "sidebar"
              /\ \A j \in 1..(k - 1) : site[j].presentation # "sidebar"].resource
  ELSE <<>>

\* the resources the loop of the activation iterates in its phase
LoopItems(frame) ==
  CASE frame.phase = "sidebar" -> SidebarResources(frame.node.resource)
    [] frame.phase = "document" -> <<>>
    [] OTHER -> frame.node.resource

\* the loop of the phase builds this child (otherwise it continues)
Builds(phase, child) ==
  CASE phase \in {"pages", "webpages"} -> child.presentation = "page"
    [] phase \in {"elements", "columns"} -> child.presentation = "element"
    [] OTHER -> TRUE

FirstPhase(child) == IF child.presentation = "page" THEN "elements" ELSE "document"

\* the phase after the loop of a phase, "return" after the last one
PhaseAfter(phase) ==
  CASE phase = "pages" -> "sidebar"
    [] phase = "elements" -> "webpages"
    [] OTHER -> "return"

InitialRun(site) ==
  [stack |-> <<Frame(WebsiteNode(site), "pages")>>, pending |-> {}, log |-> <<>>,
   done |-> <<>>, status |-> "running"]

run == call[3]
Top == run.stack[Len(run.stack)]

\* every await of the chain resumes only after its promise has settled
SuspendedNever(r) == FALSE
Suspended(r) == r.pending # {}

Running == pc = "traversal" /\ run.status = "running" /\ ~Suspended(run)

Step(r) ==
  /\ pc' = pc
  /\ call' = <<call[1], call[2], r>>

\* const documentResource = await fetchResource(documentLink.uuid)
FetchDocument ==
  /\ Running
  /\ Top.phase = "document"
  /\ Top.node.fetches
  /\ Step([run EXCEPT !.stack[Len(run.stack)].phase = "columns",
                      !.pending = @ \cup {Top.node.uuid},
                      !.log = Append(@, <<"fetch", Top.node.uuid>>)])

\* an inline document, or no internalDocument link: nothing is fetched
NoFetch ==
  /\ Running
  /\ Top.phase = "document"
  /\ ~Top.node.fetches
  /\ Step([run EXCEPT !.stack[Len(run.stack)].phase = "columns"])

\* the fetcher settles: a resource, or null and the call throws
FetchSettles ==
  /\ pc = "traversal"
  /\ run.status = "running"
  /\ \E uuid \in run.pending, resource \in {"resource", "null"} :
       Step([run EXCEPT !.pending = @ \ {uuid},
                        !.log = Append(@, <<"settle", uuid>>),
                        !.status = IF resource = "null" THEN "failed" ELSE @,
                        !.stack = IF resource = "null" THEN <<>> ELSE @])

\* await parseWebpage(resource) / await parseWebElement(resource, ...)
EnterChild ==
  /\ Running
  /\ Top.i <= Len(LoopItems(Top))
  /\ Builds(Top.phase, LoopItems(Top)[Top.i])
  /\ LET child == LoopItems(Top)[Top.i]
     IN Step([run EXCEPT !.stack = Append(@, Frame(child, FirstPhase(child))),
                         !.log = Append(@, <<"start", child.uuid>>)])

\* if (!resourceProperty) continue; parseWebpage returns null
SkipChild ==
  /\ Running
  /\ Top.i <= Len(LoopItems(Top))
  /\ ~Builds(Top.phase, LoopItems(Top)[Top.i])
  /\ Step([run EXCEPT !.stack[Len(run.stack)].i = @ + 1])

\* the loop of the phase is over and another one follows
NextPhase ==
  /\ Running
  /\ Top.phase # "document"
  /\ Top.i > Len(LoopItems(Top))
  /\ PhaseAfter(Top.phase) # "return"
  /\ Step([run EXCEPT !.stack[Len(run.stack)].phase = PhaseAfter(Top.phase),
                      !.stack[Len(run.stack)].i = 1])

\* the activation returns: returnElements.push(element), returnPages.push(webpage)
ReturnToParent ==
  /\ Running
  /\ Top.phase # "document"
  /\ Top.i > Len(LoopItems(Top))
  /\ PhaseAfter(Top.phase) = "return"
  /\ LET finished == [node |-> Top.node,
                      elements |-> Top.elements, webpages |-> Top.webpages]
         depth == Len(run.stack) - 1
         list == IF Top.node.presentation = "page" THEN "webpages" ELSE "elements"
     IN IF depth = 0
        THEN Step([run EXCEPT !.stack = <<>>, !.status = "returned",
                              !.done = Append(@, finished)])
        ELSE Step([run EXCEPT
                     !.stack = [k \in 1..depth |->
                                  IF k < depth THEN run.stack[k]
                                  ELSE [run.stack[k] EXCEPT
                                          ![list] = Append(@, Top.node.uuid),
                                          !.i = @ + 1]],
                     !.log = Append(@, <<"done", Top.node.uuid>>),
                     !.done = Append(@, finished)])

TraversalInit ==
  /\ pc = "traversal"
  /\ \E site \in Sites : call = <<"parseWebsite", [site |-> site], InitialRun(site)>>

TraversalNext ==
  \/ FetchDocument
  \/ NoFetch
  \/ FetchSettles
  \/ EnterChild
  \/ SkipChild
  \/ NextPhase
  \/ ReturnToParent

TraversalSpec == TraversalInit /\ [][TraversalNext]_vars

\* the uuids of the children with the presentation, in source order
ChildrenOf(resources, presentation) ==
  LET chosen == SelectSeq(resources, LAMBDA child : child.presentation = presentation)
  IN [k \in 1..Len(chosen) |-> chosen[k].uuid]

Logged(event) == {run.log[k][2] : k \in {j \in 1..Len(run.log) : run.log[j][1] = event}}

\* the activations above parseWebsite on the stack
UnderConstruction == {run.stack[k].node.uuid : k \in 2..Len(run.stack)}

\* C26: during one parseWebsite call at most one fetch is pending at any
\* time, and only for the element being built; the resources under
\* construction are always one resource and its ancestors, so a sibling is
\* not started before the previous one, its fetch and its descendants have
\* completed; and the elements and webpages lists of every page (and the
\* pages and sidebar elements of the website) hold their members in source
\* order.
C26_SequentialDepthFirst ==
  pc = "traversal" =>
    /\ Cardinality(run.pending) <= 1
    /\ run.status = "running" =>
         /\ Logged("start") \ Logged("done") = UnderConstruction
         /\ Logged("fetch") \ Logged("settle") = run.pending
         /\ run.pending \subseteq {Top.node.uuid}
         /\ \A k \in 2..Len(run.stack) :
              \E j \in 1..Len(LoopItems(run.stack[k - 1])) :
                 LoopItems(run.stack[k - 1])[j] = run.stack[k].node
    /\ \A k \in 1..Len(run.done) :
         LET finished == run.done[k]
         IN CASE finished.node.presentation = "page" ->
                   /\ finished.elements = ChildrenOf(finished.node.resource, "element")
                   /\ finished.webpages = ChildrenOf(finished.node.resource, "page")
              [] finished.node.presentation = "website" ->
                   /\ finished.webpages = ChildrenOf(finished.node.resource, "page")
                   /\ finished.elements =
                        [j \in 1..Len(SidebarResources(finished.node.resource)) |->
                           SidebarResources(finished.node.resource)[j].uuid]
              [] OTHER ->
                   finished.elements = ChildrenOf(finished.node.resource, "element")

\* a call that returned after four fetches, for a page whose first child is a
\* sub-page that comes before two elements
C26_Witness ==
  /\ pc = "traversal"
  /\ run.status = "returned"
  /\ Cardinality(Logged("settle")) >= 4
  /\ \E k \in 1..Len(run.done) :
       /\ run.done[k].node.uuid = "p1"
       /\ run.done[k].elements = <<"e1", "e2">>
       /\ run.done[k].webpages = <<"p2">>

(***************************************************************************)
(* parse.ts: the footnote lists of successive parseDocument invocations.   *)
(* An array is a reference: `heap` holds the arrays allocated so far, a    *)
(* returned Document holds the index of its footnotes array.  parseDocument *)
(* is synchronous, so invocations follow one another as whole steps.       *)
(***************************************************************************)
MaxCalls == 3

\* the documents rendered: single rich texts and an array tagged by language
RenderedDocuments ==
  {<<[jstype |-> "object", string |-> Arr(<<FootnoteNode1>>)], "eng">>,
   <<[jstype |-> "object",
      string |-> Arr(<<[jstype |-> "object",
                        string |-> Arr(<<FootnoteNode2, ConceptNode>>),
                        whitespace |-> <<"trailing">>],
                       FootnoteNode1>>)], "eng">>,
   <<[jstype |-> "object", string |-> Str(<<"x">>)], "eng">>}
    \cup {<<Arr(<<[jstype |-> "object", string |-> Arr(<<FootnoteNode1>>), lang |-> "fra"],
                  [jstype |-> "object", string |-> Arr(<<FootnoteNode2, ConceptNode>>),
                   lang |-> "eng"]>>), language>> : language \in Languages}

\* the contents of notes, rendered by parseNotes through parseDocument
RenderedNotes ==
  {[jstype |-> "object", string |-> Arr(<<FootnoteNode2>>)],
   [jstype |-> "object", string |-> Str(<<"n">>)]}

documents == call[3]

\* const footnotes: Array<Footnote> = [] allocates a new array
SharedFootnotes(heap) == 1
FreshFootnotes(heap) == Len(heap) + 1

\* footnotes.push(...) on the array the reference names
Pushed(heap, reference, footnotes) ==
  IF reference <= Len(heap) THEN [heap EXCEPT ![reference] = @ \o footnotes]
  ELSE Append(heap, footnotes)

DocumentsStep(a, heap, returned) ==
  /\ pc = "documents"
  /\ Len(documents.heap) < MaxCalls
  /\ pc' = pc
  /\ call' = <<"parseDocument", a, [heap |-> heap, returned |-> returned]>>

\* one invocation: the list is allocated, filled, and returned in the Document
\* when `kept`; a throw leaves the list behind and returns nothing
Invocation(document, language, result, kept) ==
  LET reference == FreshFootnotes(documents.heap)
  IN DocumentsStep([document |-> document, language |-> language],
                   Pushed(documents.heap, reference,
                          IF result.ok THEN result.value.footnotes ELSE <<>>),
                   IF result.ok /\ kept
                   THEN Append(documents.returned,
                               [document |-> document, language |-> language,
                                content |-> result.value.content,
                                footnotes |-> reference])
                   ELSE documents.returned)

\* a caller keeps the Document parseDocument returns
DocumentReturned(document, language, result) ==
  /\ result.ok
  /\ Invocation(document, language, result, TRUE)

\* parseDocument throws after it allocated its list
DocumentFailed(document, language, result) ==
  /\ ~result.ok
  /\ Invocation(document, language, result, FALSE)

\* content = parseEmailAndUrl(parseDocument(noteWithLanguage).content)
NoteRendered(note, result) ==
  /\ result.ok
  /\ Invocation(note, DefaultLanguage, result, FALSE)

DocumentsInit ==
  /\ pc = "documents"
  /\ call = <<"parseDocument", <<>>, [heap |-> <<>>, returned |-> <<>>]>>

DocumentsNext ==
  \/ \E input \in RenderedDocuments :
        DocumentReturned(input[1], input[2], parseDocument(input[1], input[2]))
  \/ \E input \in RenderedDocuments :
        DocumentFailed(input[1], input[2], parseDocument(input[1], input[2]))
  \/ \E note \in RenderedNotes :
        NoteRendered(note, parseDocument(note, DefaultLanguage))

DocumentsSpec == DocumentsInit /\ [][DocumentsNext]_vars

\* the uuids of the footnote annotations of the selected content, in order
SelectedFootnotes(document, language) ==
  LET selected == IF IsArray(document) THEN ResolverChoice(document.v, language)
                  ELSE document
  IN IF IsPrimitive(selected.string) THEN <<>>
     ELSE FootnoteUuids(Normalize(selected.string))

\* C27: the footnotes of every Document parseDocument has returned are, and
\* remain after every later render, exactly the footnote annotations of that
\* document's selected content in order of appearance; no two returned
\* Documents share their footnote list.
C27_FootnotesOwned ==
  pc = "documents" =>
    \A k \in 1..Len(documents.returned) :
      LET document == documents.returned[k]
          footnotes == documents.heap[document.footnotes]
      IN /\ [i \in 1..Len(footnotes) |-> footnotes[i].uuid]
              = SelectedFootnotes(document.document, document.language)
         /\ \A j \in 1..Len(documents.returned) :
              j # k => documents.returned[j].footnotes # document.footnotes

\* a Document with two footnotes was returned, then a note with a footnote
\* was rendered, then a Document with one footnote was returned
C27_Witness ==
  /\ pc = "documents"
  /\ Len(documents.heap) = 3
  /\ Len(documents.returned) = 2
  /\ documents.returned[1].footnotes = 1
  /\ documents.returned[2].footnotes = 3
  /\ Len(documents.heap[1]) = 2
  /\ Len(documents.heap[2]) = 1
  /\ Len(documents.heap[3]) = 1

====
